---- MODULE Spec2Model ----
(***************************************************************************)
(* A model of EIYBrowse: the interaction-matrix access layer (window       *)
(* index, folder stores, SQL store, diagonal masking) and the track layout *)
(* engine of Browser.plot.                                                 *)
(*                                                                         *)
(* Array indices are 0-based as in the Python source; a window list is a   *)
(* TLA+ sequence, so the window with array index i is windows[i + 1].      *)
(***************************************************************************)
EXTENDS Integers, Sequences, FiniteSets, TLC

VARIABLES
    pc,         \* position of the caller in the operation under way
    region,     \* the pybedtools.Interval the caller passes in
    windows,    \* My5cFile.windows / rows of the SQL table "windows"
    scores,     \* My5cFile.interactions, the matrix of the open file
    result,     \* what the last call returned or raised
    resolved,   \* what indices_to_interval returned
    backend,    \* the kind of store: "my5c", "npz" or "db"
    folder,     \* the file names in My5CFolder.folder_path
    table,      \* the (x, y) pairs that have a row in the chromosome table
    path,       \* what find_chrom_file returned
    bins,       \* what bins_from_feature returned
    data,       \* what get_data_from_bins returned
    io,         \* the directory listings, file reads and queries so far
    impl,       \* the Browser in use: "EIYBrowse" (core.py) or "browser"
    tracks,     \* Browser.tracks: for each track, the rows it declares
    track_configs,  \* the declarations collected by Browser.plot
    figure,     \* the figure made by plt.figure
    gs,         \* Plot.gs
    frames,     \* Plot.frames (the axes list of browser.core.Browser)
    frame_index,    \* Plot.frame_index
    calls,      \* the calls Browser.plot has made, in order
    layouts,    \* the geometry earlier plot calls gave each region
    masked,     \* the matrix a track draws, its diagonal removed
    browser,    \* Browser.width and Browser.rowheight
    self_track, \* the track whose get_config is called
    config,     \* what that get_config returned
    python,     \* the major version of the interpreter: 2 or 3
    A,          \* the array the normalizer is called with
    norm,       \* the normalizer: its quantile, vmin and vmax
    image,      \* the values imshow draws for the cells of A
    gene_rows,  \* GeneTrack.gene_rows.rows
    genes,      \* the extents of the genes get_genes has given so far
    drawn,      \* the row _plot drew each gene in
    gene_calls, \* the plot calls made with the gene track
    disk,       \* the matrix in the chromosome's file on disk
    objects,    \* the interactions array of every My5cFile object made so far
    returned,  \* what each interactions(region) call returned, as it was then
    tick_locations, \* ax.xaxis.get_ticklocs(), in tenths of a base pair
    precision,  \* the precision of the label search
    new_labels,\* the labels made in the last turn of the search
    heatmap,    \* the data argument of rotate_heatmap
    flip,       \* the flip argument of rotate_heatmap
    rot        \* the image rotate_heatmap is working on

indexVars == <<windows, scores, resolved>>
storeVars == <<backend, folder, table, path, bins, data, io>>

layoutVars ==
    <<impl, tracks, track_configs, figure, gs, frames, frame_index, calls,
      layouts>>

trackVars == <<masked>>
configVars == <<browser, self_track, config, python>>

normVars == <<A, norm, image>>

geneVars == <<gene_rows, genes, drawn, gene_calls>>

readVars == <<disk, objects, returned>>

labelVars == <<tick_locations, precision, new_labels>>

rotateVars == <<heatmap, flip, rot>>

vars ==
    <<pc, region, result, indexVars, storeVars, layoutVars, trackVars,
      configVars, normVars,
      geneVars,
      readVars,
      labelVars,
      rotateVars>>

---------------------------------------------------------------------------
(* Bounds of the model *)

\* genomic positions are 0..MaxPos
MaxPos == 4
\* a chromosome file holds 1..MaxWindows windows
MaxWindows == 3

Chroms == {"chr1", "chr2"}
Positions == 0 .. MaxPos

\* pybedtools.Interval(chrom, start, stop): any pair of positions can be
\* passed in, start >= stop included
Regions == [chrom : Chroms, start : Positions, stop : Positions]

NoValue == [kind |-> "none"]

---------------------------------------------------------------------------
(* Helpers *)

Min(S) == CHOOSE x \in S : \A y \in S : x <= y
Max(S) == CHOOSE x \in S : \A y \in S : x >= y

---------------------------------------------------------------------------
(* Matrices: numpy arrays, kept in row-major (flat) order *)

\* a cell is NaN or a number
NaN == <<>>
Num(v) == <<v>>

\* the index pairs of an nr x nc array
Indices(nr, nc) == (0 .. (nr - 1)) \X (0 .. (nc - 1))

\* the nr x nc array whose cell (i, j) is f[<<i, j>>]
Matrix(nr, nc, f) ==
    [nrows |-> nr,
     ncols |-> nc,
     flat |-> [k \in 0 .. (nr * nc - 1) |-> f[<<k \div nc, k % nc>>]]]

Cell(m, i, j) == m.flat[i * m.ncols + j]

\* m[0:hi - lo, 0:hi - lo]: a slice of the right size, taken at the origin
slice_at_origin(m, lo, hi) ==
    LET cell == [p \in Indices(hi - lo, hi - lo) |-> Cell(m, p[1], p[2])]
    IN Matrix(hi - lo, hi - lo, cell)

\* m[lo:hi, lo:hi]
slice(m, lo, hi) ==
    LET cell == [p \in Indices(hi - lo, hi - lo) |->
                    Cell(m, lo + p[1], lo + p[2])]
    IN Matrix(hi - lo, hi - lo, cell)

\* The score stored for the bin pair (x, y).  The stores move scores and
\* never compute with them, so every pair gets a score of its own; the
\* pair (0, 1) gets a genuine zero.
DiskValue(x, y) == Num((x * (MaxWindows + 1) + y) - 1)

\* np.array(data): the square matrix of a file with n bins
file_interactions(n) ==
    Matrix(n, n, [p \in Indices(n, n) |-> DiskValue(p[1], p[2])])

---------------------------------------------------------------------------
(* my5c_folder.py: window labels and My5cFile *)

\* format_windows: one (chrom, start, stop) row per label of the file, in
\* file order.  A file holds the bins of one chromosome (module docstring).
format_windows(chrom, spans) ==
    [i \in DOMAIN spans |->
        [chrom |-> chrom, start |-> spans[i][1], stop |-> spans[i][2]]]

\* The window lists a file can hold: every bin has start < stop, and the bins
\* are in genome order without overlap (a malformed list is outside the
\* store's contract and is not modelled).
Spans == {s \in Positions \X Positions : s[1] < s[2]}

RECURSIVE SpanListsOfLen(_)
\* the lists of n bins: a list of n - 1 bins and a bin that starts at or
\* after the stop of its last bin
SpanListsOfLen(n) ==
    IF n = 1
    THEN {<<s>> : s \in Spans}
    ELSE UNION {{Append(l, s) : s \in {x \in Spans : l[n - 1][2] <= x[1]}} :
                    l \in SpanListsOfLen(n - 1)}

SpanLists == UNION {SpanListsOfLen(n) : n \in 1 .. MaxWindows}
WindowLists == {format_windows(c, l) : c \in Chroms, l \in SpanLists}

\* window_in_region without the comparison of chromosome names
window_in_region_any_chrom(w, r) ==
    {i \in DOMAIN w : w[i].stop > r.start /\ w[i].start < r.stop}

\* the boolean mask window_in_region, as the set of 1-based positions set
window_in_region(w, r) ==
    {i \in DOMAIN w :
        /\ w[i].stop > r.start
        /\ w[i].start < r.stop
        /\ w[i].chrom = r.chrom}

\* an index whose first level lists no chromosome
chrom_level_empty(w) == {}

\* self.windows.levels[0]: the chromosome names of the index
chrom_level(w) == {w[i].chrom : i \in DOMAIN w}

\* the opening check written with <= : an empty region passes
region_is_valid_or_empty(r) == r.start <= r.stop

\* the check My5cFile.index_from_interval opens with
region_is_valid(r) == r.start < r.stop

\* the start index as a 1-based position
first_covered_one_based(covered) == Min(covered)

\* the start index taken from the covered windows (covered_windows[0])
first_covered(covered) == Min(covered) - 1

\* the stop index without the "+ 1" that makes it exclusive
last_covered_inclusive(covered) == Max(covered) - 1

\* the stop index taken from the covered windows (covered_windows[-1] + 1)
last_covered_plus_one(covered) == Max(covered)

\* My5cFile.index_from_interval
index_from_interval(w, r) ==
    IF ~ region_is_valid(r)
    THEN [kind |-> "ValueError"]
    ELSE LET covered == window_in_region(w, r) IN
         IF covered = {} /\ r.chrom \notin chrom_level(w)
         THEN [kind |-> "InvalidChromError"]
         ELSE IF covered = {}
         \* covered_windows[0] on an empty array
         THEN [kind |-> "IndexError"]
         ELSE [kind |-> "ok",
               start |-> first_covered(covered),
               stop |-> last_covered_plus_one(covered)]

\* indices_to_interval reading both ends from the start window
indices_to_interval_start_only(w, start, stop) ==
    [chrom |-> w[start + 1].chrom,
     start |-> w[start + 1].start,
     stop |-> w[start + 1].stop]

\* My5cFile.indices_to_interval
indices_to_interval(w, start, stop) ==
    LET start_window == w[start + 1]
        stop_window == w[(stop - 1) + 1]
    IN [chrom |-> start_window.chrom,
        start |-> start_window.start,
        stop |-> stop_window.stop]

---------------------------------------------------------------------------
(* A caller of one My5cFile: index_from_interval, then indices_to_interval *)

\* the store variables while no store is in use
StoreIdle ==
    /\ backend = "none"
    /\ folder = {}
    /\ table = {}
    /\ path = NoValue
    /\ bins = NoValue
    /\ data = NoValue
    /\ io = <<>>

\* the layout variables while no browser is in use
LayoutIdle ==
    /\ impl = "none"
    /\ tracks = <<>>
    /\ track_configs = <<>>
    /\ figure = NoValue
    /\ gs = NoValue
    /\ frames = <<>>
    /\ frame_index = 0
    /\ calls = <<>>
    /\ layouts = {}

\* the track variables while no track is drawing
TrackIdle == masked = NoValue

\* the configuration variables while no track is being configured
ConfigIdle ==
    /\ browser = NoValue
    /\ self_track = NoValue
    /\ config = NoValue
    /\ python = 0

\* the normalizer variables while nothing is drawn
NormIdle ==
    /\ A = NoValue
    /\ norm = NoValue
    /\ image = NoValue

\* the gene track variables while no gene track is in use
GeneIdle ==
    /\ gene_rows = <<>>
    /\ genes = <<>>
    /\ drawn = NoValue
    /\ gene_calls = 0

\* the variables of repeated reads while no store is read twice
ReadIdle ==
    /\ disk = NoValue
    /\ objects = <<>>
    /\ returned = <<>>

\* the variables of the location track while none is drawn
LabelIdle ==
    /\ tick_locations = <<>>
    /\ precision = 0
    /\ new_labels = <<>>

\* the variables of rotate_heatmap while nothing is rotated
RotateIdle ==
    /\ heatmap = NoValue
    /\ flip = FALSE
    /\ rot = NoValue

InitIndex ==
    /\ pc = "start"
    /\ region \in Regions
    /\ windows \in WindowLists
    /\ scores = file_interactions(Len(windows))
    /\ result = NoValue
    /\ resolved = NoValue
    /\ StoreIdle
    /\ LayoutIdle
    /\ TrackIdle
    /\ ConfigIdle
    /\ NormIdle
    /\ GeneIdle
    /\ ReadIdle
    /\ LabelIdle
    /\ RotateIdle

IndexFromInterval ==
    /\ pc = "start"
    /\ result' = index_from_interval(windows, region)
    /\ pc' = "indexed"
    /\ UNCHANGED <<region, windows, scores, resolved, storeVars, layoutVars,
                   trackVars,
                   configVars, normVars, geneVars, readVars, labelVars,
                   rotateVars>>

IndicesToInterval ==
    /\ pc = "indexed"
    /\ result.kind = "ok"
    /\ resolved' = indices_to_interval(windows, result.start, result.stop)
    /\ pc' = "resolved"
    /\ UNCHANGED <<region, windows, scores, result, storeVars, layoutVars,
                   trackVars,
                   configVars, normVars, geneVars, readVars, labelVars,
                   rotateVars>>

NextIndex == IndexFromInterval \/ IndicesToInterval

SpecIndex == InitIndex /\ [][NextIndex]_vars

---------------------------------------------------------------------------
(* my5c_folder.py: My5cFile.get_interactions and My5CFolder *)

\* My5cFile.get_interactions
get_interactions(w, m, r) ==
    LET ix == index_from_interval(w, r) IN
    IF ix.kind # "ok"
    THEN ix
    ELSE [kind |-> "ok",
          data |-> slice(m, ix.start, ix.stop),
          region |-> indices_to_interval(w, ix.start, ix.stop)]

\* A file name, cut at the places the search string can tell apart.
FileName(prefix, a, b, ext) == <<prefix, "_", a, "_", b, ext>>

\* the files a data folder may hold
FileNames ==
    {FileName("HiC", "chr1", "chr1", ".my5c.txt"),
     FileName("rep2", "chr1", "chr1", ".my5c.txt"),
     FileName("HiC", "chr2", "chr2", ".my5c.txt"),
     FileName("HiC", "chr1", "chr2", ".my5c.txt"),
     FileName("HiC", "chr1", "chr1", ".npz")}

Folders == SUBSET FileNames

\* the chromosome whose bins a file holds
file_chrom(name) == name[3]

\* search_string = '*{0}_{0}*.my5c.txt'.format(chrom), matched by glob
glob_matches(name, chrom) ==
    /\ name[Len(name)] = ".my5c.txt"
    /\ \E i \in 1 .. (Len(name) - 3) :
         name[i] = chrom /\ name[i + 1] = "_" /\ name[i + 2] = chrom

\* found_files = glob.glob(os.path.join(self.folder_path, search_string))
found_files(dir, chrom) == {f \in dir : glob_matches(f, chrom)}

\* find_chrom_file without the check for more than one file
find_chrom_file_first_match(dir, chrom) ==
    LET found == found_files(dir, chrom) IN
    IF Cardinality(found) = 0
    THEN [kind |-> "NoFilesError"]
    ELSE [kind |-> "ok", file |-> CHOOSE f \in found : TRUE]

\* My5CFolder.find_chrom_file
find_chrom_file(dir, chrom) ==
    LET found == found_files(dir, chrom) IN
    IF Cardinality(found) > 1
    THEN [kind |-> "TooManyFilesError"]
    ELSE IF Cardinality(found) = 0
    THEN [kind |-> "NoFilesError"]
    ELSE [kind |-> "ok", file |-> CHOOSE f \in found : TRUE]

---------------------------------------------------------------------------
(* interactions_db.py: InteractionsDbFile *)

\* the members of a set of integers, in increasing order
Ascending(S) ==
    [i \in 1 .. Cardinality(S) |->
        CHOOSE x \in S : Cardinality({y \in S : y < x}) = i - 1]

\* the chromosome table the importer writes for n bins: a row for every pair
dense_table(n) == (0 .. (n - 1)) \X (0 .. (n - 1))

\* pos_query ordered by start ASC: the first window of the chromosome
get_bin_from_location_ascending(w, chrom, location) ==
    LET rows == {k \in DOMAIN w :
                    w[k].chrom = chrom /\ w[k].start <= location}
    IN IF rows = {}
       THEN [kind |-> "IndexError"]
       ELSE [kind |-> "ok",
             i |-> (CHOOSE k \in rows :
                        \A j \in rows : w[j].start >= w[k].start) - 1]

\* pos_query: SELECT i FROM windows WHERE chrom = .. AND start <= ..
\*            ORDER BY start DESC LIMIT 1
\* The column i of a window is its row number in the imported file.
get_bin_from_location(w, chrom, location) ==
    LET rows == {k \in DOMAIN w :
                    w[k].chrom = chrom /\ w[k].start <= location}
    IN IF rows = {}
       \* pos.values[0, 0] on an empty result
       THEN [kind |-> "IndexError"]
       ELSE [kind |-> "ok",
             i |-> (CHOOSE k \in rows :
                        \A j \in rows : w[j].start <= w[k].start) - 1]

\* loc_query: SELECT start, stop FROM windows WHERE i = .. AND chrom = ..
get_location_from_bin(w, chrom, i) ==
    LET rows == {k \in DOMAIN w : k - 1 = i /\ w[k].chrom = chrom}
    IN IF rows = {}
       \* loc.values[0] on an empty result
       THEN [kind |-> "IndexError"]
       ELSE LET k == CHOOSE k \in rows : TRUE
            IN [kind |-> "ok", start |-> w[k].start, stop |-> w[k].stop]

\* InteractionsDbFile.bins_from_feature; queries counts the queries made
bins_from_feature(w, feature) ==
    LET start_bin == get_bin_from_location(w, feature.chrom, feature.start)
        stop_bin == get_bin_from_location(w, feature.chrom, feature.stop)
    IN IF start_bin.kind # "ok"
       THEN [kind |-> start_bin.kind, queries |-> 1]
       ELSE IF stop_bin.kind # "ok"
       THEN [kind |-> stop_bin.kind, queries |-> 2]
       ELSE [kind |-> "ok", queries |-> 2, chrom |-> feature.chrom,
             start |-> start_bin.i, stop |-> stop_bin.i]

\* select x, y, value from {chrom} where x >= start and x <= stop
\*                                   and y >= start and y <= stop
selected_rows(tbl, start, stop) ==
    {p \in tbl :
        p[1] >= start /\ p[1] <= stop /\ p[2] >= start /\ p[2] <= stop}

\* .set_index(['x', 'y']).unstack(): one row per x found, one column per y
\* found, NaN where the pair has no row
unstack(rows) ==
    LET xs == Ascending({p[1] : p \in rows})
        ys == Ascending({p[2] : p \in rows})
        cell == [p \in Indices(Len(xs), Len(ys)) |->
                    IF <<xs[p[1] + 1], ys[p[2] + 1]>> \in rows
                    THEN DiskValue(xs[p[1] + 1], ys[p[2] + 1])
                    ELSE NaN]
    IN Matrix(Len(xs), Len(ys), cell)

\* N = data_array.shape[0]; data_array.flat[0:N ** 2:N + 1] = np.NAN
stamp_diagonal(m) ==
    LET N == m.nrows IN
    [m EXCEPT !.flat =
        [k \in DOMAIN m.flat |->
            IF k < N * N /\ k % (N + 1) = 0 THEN NaN ELSE m.flat[k]]]

\* InteractionsDbFile.get_data_from_bins
get_data_from_bins(tbl, start, stop) ==
    stamp_diagonal(unstack(selected_rows(tbl, start, stop)))

\* What get_data_from_bins can end in.  When the query selects no row,
\* unstack of the empty frame gives an empty array or raises, depending on
\* the pandas release.
get_data_outcomes(tbl, start, stop) ==
    {[kind |-> "ok", data |-> get_data_from_bins(tbl, start, stop)]}
    \cup (IF selected_rows(tbl, start, stop) = {}
          THEN {[kind |-> "PandasError"]} ELSE {})

\* InteractionsDbFile.feature_from_bins
feature_from_bins(w, chrom, start_bin, stop_bin) ==
    LET l == get_location_from_bin(w, chrom, start_bin)
        r == get_location_from_bin(w, chrom, stop_bin)
    IN IF l.kind # "ok"
       THEN [kind |-> l.kind, queries |-> 1]
       ELSE IF r.kind # "ok"
       THEN [kind |-> r.kind, queries |-> 2]
       ELSE [kind |-> "ok", queries |-> 2,
             region |-> [chrom |-> chrom, start |-> l.start, stop |-> r.stop]]

---------------------------------------------------------------------------
(* One call of interactions(region) on a store *)

FolderBackends == {"my5c", "npz"}
Backends == FolderBackends \cup {"db"}

Query(n) == [i \in 1 .. n |-> [op |-> "read_sql"]]

InitStore ==
    /\ pc = "start"
    /\ region \in Regions
    /\ backend \in Backends
    /\ folder \in (IF backend = "db" THEN {{}} ELSE Folders)
    \* a folder store opens its file during the call; the database is there
    /\ windows \in (IF backend = "db" THEN WindowLists ELSE {<<>>})
    /\ table = IF backend = "db" THEN dense_table(Len(windows)) ELSE {}
    /\ scores = NoValue
    /\ resolved = NoValue
    /\ result = NoValue
    /\ path = NoValue
    /\ bins = NoValue
    /\ data = NoValue
    /\ io = <<>>
    /\ LayoutIdle
    /\ TrackIdle
    /\ ConfigIdle
    /\ NormIdle
    /\ GeneIdle
    /\ ReadIdle
    /\ LabelIdle
    /\ RotateIdle

\* My5CFolder.interactions -> get_my5c_file -> find_chrom_file
FindChromFile ==
    /\ pc = "start"
    /\ backend \in FolderBackends
    /\ io' = Append(io, [op |-> "glob"])
    /\ LET found == find_chrom_file(folder, region.chrom) IN
       IF found.kind = "ok"
       THEN path' = found.file /\ pc' = "found" /\ UNCHANGED result
       ELSE result' = found /\ pc' = "done" /\ UNCHANGED path
    /\ UNCHANGED <<region, indexVars, backend, folder, table, bins, data,
                   layoutVars, trackVars,
                   configVars, normVars, geneVars, readVars, labelVars,
                   rotateVars>>

\* My5CFolder.get_my5c_file: self.file_class(my5c_path) reads the file
OpenFile ==
    /\ pc = "found"
    /\ \E l \in SpanLists :
         /\ windows' = format_windows(file_chrom(path), l)
         /\ scores' = file_interactions(Len(l))
    /\ io' = Append(io, [op |-> IF backend = "npz" THEN "np.load"
                                                   ELSE "read_csv"])
    /\ pc' = "loaded"
    /\ UNCHANGED <<region, result, resolved, backend, folder, table, path,
                   bins, data, layoutVars, trackVars,
                   configVars, normVars, geneVars, readVars, labelVars,
                   rotateVars>>

\* My5CFolder.interactions: my5c_file.get_interactions(region)
GetInteractions ==
    /\ pc = "loaded"
    /\ result' = get_interactions(windows, scores, region)
    /\ pc' = "done"
    /\ UNCHANGED <<region, indexVars, storeVars, layoutVars, trackVars,
                   configVars, normVars, geneVars, readVars, labelVars,
                   rotateVars>>

\* InteractionsDbFile.interactions: bins_from_feature(feature)
BinsFromFeature ==
    /\ pc = "start"
    /\ backend = "db"
    /\ LET b == bins_from_feature(windows, region) IN
       /\ io' = io \o Query(b.queries)
       /\ IF b.kind = "ok"
          THEN /\ bins' = [chrom |-> b.chrom, start |-> b.start,
                           stop |-> b.stop]
               /\ pc' = "binned"
               /\ UNCHANGED result
          ELSE /\ result' = [kind |-> b.kind]
               /\ pc' = "done"
               /\ UNCHANGED bins
    /\ UNCHANGED <<region, indexVars, backend, folder, table, path, data,
                   layoutVars, trackVars,
                   configVars, normVars, geneVars, readVars, labelVars,
                   rotateVars>>

\* InteractionsDbFile.interactions: get_data_from_bins(chrom, start, stop)
GetDataFromBins ==
    /\ pc = "binned"
    /\ io' = io \o Query(1)
    /\ \E out \in get_data_outcomes(table, bins.start, bins.stop) :
         IF out.kind = "ok"
         THEN data' = out.data /\ pc' = "queried" /\ UNCHANGED result
         ELSE result' = out /\ pc' = "done" /\ UNCHANGED data
    /\ UNCHANGED <<region, indexVars, backend, folder, table, path, bins,
                   layoutVars, trackVars,
                   configVars, normVars, geneVars, readVars, labelVars,
                   rotateVars>>

\* InteractionsDbFile.interactions: feature_from_bins(chrom, start, stop)
FeatureFromBins ==
    /\ pc = "queried"
    /\ LET f == feature_from_bins(windows, bins.chrom, bins.start, bins.stop)
       IN /\ io' = io \o Query(f.queries)
          /\ result' = IF f.kind = "ok"
                       THEN [kind |-> "ok", data |-> data,
                             region |-> f.region]
                       ELSE [kind |-> f.kind]
    /\ pc' = "done"
    /\ UNCHANGED <<region, indexVars, backend, folder, table, path, bins,
                   data, layoutVars, trackVars,
                   configVars, normVars, geneVars, readVars, labelVars,
                   rotateVars>>

NextStore ==
    \/ FindChromFile
    \/ OpenFile
    \/ GetInteractions
    \/ BinsFromFeature
    \/ GetDataFromBins
    \/ FeatureFromBins

SpecStore == InitStore /\ [][NextStore]_vars

---------------------------------------------------------------------------
(* core.py: Browser and Plot; browser/core.py: the earlier Browser *)

\* a track declares 1..MaxRows rows; a browser holds 0..MaxTracks tracks
MaxRows == 4
MaxTracks == 3

\* Browser.__init__: width=16, rowheight=.5 (a fraction, to stay in integers)
DefaultWidth == 16
DefaultRowHeight == [num |-> 1, den |-> 2]

\* the browser a plot is made with when no width or rowheight is given
DefaultBrowser == [width |-> DefaultWidth, rowheight |-> DefaultRowHeight]

\* Browser(width=.., rowheight=..): the default and a narrow browser with
\* rows of 1.5; browser.core has 16 and 2 lines per unit written in
Browsers ==
    {DefaultBrowser, [width |-> 3, rowheight |-> [num |-> 3, den |-> 2]]}

Impls == {"EIYBrowse", "browser"}
TrackLists == UNION {[1 .. n -> 1 .. MaxRows] : n \in 0 .. MaxTracks}

\* the regions a plot is asked for (test_feature is chr1:0-1)
PlotRegions ==
    {[chrom |-> "chr1", start |-> 0, stop |-> 1],
     [chrom |-> "chr2", start |-> 1, stop |-> MaxPos]}

RECURSIVE SumFirst(_, _)
\* s[1] + ... + s[n]
SumFirst(s, n) == IF n = 0 THEN 0 ELSE s[n] + SumFirst(s, n - 1)

\* sum([p['rows'] for p in track_configs])
total_rows(configs) ==
    SumFirst([i \in DOMAIN configs |-> configs[i].rows], Len(configs))

\* what track i answers to get_config(region, browser)
get_config(i) == [rows |-> tracks[i]]

\* the list of declarations is handed on before it is complete
some_configured == Len(track_configs) >= Len(tracks) - 1

\* the list comprehension of Browser.plot has run over every track
all_configured == Len(track_configs) = Len(tracks)

\* a figure as wide as the default browser whatever width was asked for
make_base_gridspec_default_width(configs) ==
    [width |-> DefaultWidth,
     height |-> [num |-> total_rows(configs) * browser.rowheight.num,
                 den |-> browser.rowheight.den]]

\* Browser._make_base_gridspec: figheight = total_rows * self.rowheight;
\* plt.figure(figsize=(self.width, figheight))
make_base_gridspec(configs) ==
    [width |-> browser.width,
     height |-> [num |-> total_rows(configs) * browser.rowheight.num,
                 den |-> browser.rowheight.den]]

\* a grid of a single row whatever the number of declarations
make_gridspec_one_row(configs) ==
    [nrows |-> 1,
     ncols |-> 2,
     height_ratios |-> [i \in DOMAIN configs |-> configs[i].rows]]

\* Plot._make_gridspec: one grid row per frame, two columns, no gaps
make_gridspec(configs) ==
    [nrows |-> Len(configs),
     ncols |-> 2,
     height_ratios |-> [i \in DOMAIN configs |-> configs[i].rows]]

\* make_frame handing every frame to the first track
make_frame_first_track(track, row_index) ==
    [track |-> 1,
     row_index |-> row_index,
     label_ax |-> <<row_index, 0>>,
     plot_ax |-> <<row_index, 1>>,
     results |-> NoValue]

\* make_frame(track, gs, row_index): the axes are the cells gs[row_index, 0]
\* and gs[row_index, 1]
make_frame(track, row_index) ==
    [track |-> track,
     row_index |-> row_index,
     label_ax |-> <<row_index, 0>>,
     plot_ax |-> <<row_index, 1>>,
     results |-> NoValue]

\* a Plot that starts where the plot before it stopped
Plot_continued == [frames |-> <<>>, frame_index |-> frame_index]

\* Plot.__init__: self.frames = []; self.frame_index = 0
Plot_init == [frames |-> <<>>, frame_index |-> 0]

\* Plot.add_frame leaving frame_index as it is
same_frame_index(i) == i

\* Plot.add_frame: self.frame_index += 1
next_frame_index(i) == i + 1

\* browser.core.Browser.get_axes: the subplot2grid call of each panel,
\* line_index running from 0
RECURSIVE get_axes_from(_, _, _)
get_axes_from(configs, k, line_index) ==
    IF k > Len(configs)
    THEN <<>>
    ELSE <<[shape |-> <<total_rows(configs), 1>>,
            loc |-> <<line_index, 0>>,
            rowspan |-> configs[k].rows,
            results |-> NoValue]>>
         \o get_axes_from(configs, k + 1, line_index + configs[k].rows)

get_axes(configs) == get_axes_from(configs, 1, 0)

\* the value a track's plot returns, different for every track and region
plot_result(i, r) == [kind |-> "drawn", track |-> i, region |-> r]

\* what a call of track i's plot can end in: a return value or an exception
plot_outcomes(i, r) == {plot_result(i, r), [kind |-> "TrackError", track |-> i]}

\* a loop over the frames that carries on after a plot raised
propagates_never(out) == FALSE

\* Plot.do_plot calls plot outside any try block: an exception leaves the
\* loop, do_plot and Browser.plot
propagates(out) == out.kind = "TrackError"

\* the track that frame k is plotted by (browser.core zips panels and axes)
frame_track(k) == IF impl = "browser" THEN k ELSE frames[k].track

\* the axes of frame k that the track draws its data on
frame_plot_ax(k) ==
    IF impl = "browser" THEN <<frames[k].loc[1], 0>> ELSE frames[k].plot_ax

\* the axes of frame k that the track writes its name on (browser.core
\* passes one axes only)
frame_label_ax(k) == IF impl = "browser" THEN NoValue ELSE frames[k].label_ax

\* The grid the frames are laid out in, in rows: the figure is
\* total_rows * rowheight high and a row is rowheight high.
grid_rows ==
    IF impl = "browser"
    THEN (IF frames = <<>> THEN 0 ELSE frames[1].shape[1])
    ELSE (figure.height.num * browser.rowheight.den)
            \div (figure.height.den * browser.rowheight.num)

\* The first row of frame k.  A GridSpec with hspace=0 gives grid row i the
\* share height_ratios[i] / sum(height_ratios) of the height, stacked from
\* the top.
frame_offset(k) ==
    IF impl = "browser"
    THEN frames[k].loc[1]
    ELSE (SumFirst(gs.height_ratios, frames[k].row_index) * grid_rows)
            \div SumFirst(gs.height_ratios, gs.nrows)

\* the number of rows frame k spans
frame_span(k) ==
    IF impl = "browser"
    THEN frames[k].rowspan
    ELSE (gs.height_ratios[frames[k].row_index + 1] * grid_rows)
            \div SumFirst(gs.height_ratios, gs.nrows)

\* the grid row frame k was given
frame_row(k) ==
    IF impl = "browser" THEN frames[k].loc[1] ELSE frames[k].row_index

\* the grid rows of the frames, in frame order
frame_rows == [k \in DOMAIN frames |-> frame_row(k)]

\* the geometry of the allocated grid: its height in rows and, for every
\* frame, the first row and the number of rows
geometry ==
    [total |-> grid_rows,
     offsets |-> [k \in DOMAIN frames |-> frame_offset(k)],
     spans |-> [k \in DOMAIN frames |-> frame_span(k)]]

InitLayout ==
    /\ pc = "config"
    /\ impl \in Impls
    /\ tracks \in TrackLists
    /\ region \in PlotRegions
    /\ track_configs = <<>>
    /\ figure = NoValue
    /\ gs = NoValue
    /\ frames = <<>>
    /\ frame_index = 0
    /\ calls = <<>>
    /\ layouts = {}
    /\ result = NoValue
    /\ windows = <<>>
    /\ scores = NoValue
    /\ resolved = NoValue
    /\ StoreIdle
    /\ TrackIdle
    /\ browser \in (IF impl = "browser" THEN {DefaultBrowser} ELSE Browsers)
    /\ self_track = NoValue
    /\ config = NoValue
    /\ python = 0
    /\ NormIdle
    /\ GeneIdle
    /\ ReadIdle
    /\ LabelIdle
    /\ RotateIdle

\* track_configs = [p.get_config(region, self) for p in self.tracks]
GetConfig ==
    /\ pc = "config"
    /\ Len(track_configs) < Len(tracks)
    /\ LET i == Len(track_configs) + 1 IN
       /\ track_configs' = Append(track_configs, get_config(i))
       /\ calls' = Append(calls, [op |-> "get_config", track |-> i,
                                  region |-> region])
    /\ UNCHANGED <<pc, region, result, indexVars, storeVars, impl, tracks,
                   figure, gs, frames, frame_index, layouts, trackVars,
                   configVars, normVars, geneVars, readVars, labelVars,
                   rotateVars>>

\* Browser.plot: base_gridspec = self._make_base_gridspec(track_configs)
MakeBaseGridspec ==
    /\ pc = "config"
    /\ impl = "EIYBrowse"
    /\ all_configured
    /\ figure' = make_base_gridspec(track_configs)
    /\ calls' = Append(calls, [op |-> "figure", configs |-> track_configs])
    /\ pc' = "figure"
    /\ UNCHANGED <<region, result, indexVars, storeVars, impl, tracks,
                   track_configs, gs, frames, frame_index, layouts, trackVars,
                   configVars, normVars, geneVars, readVars, labelVars,
                   rotateVars>>

\* Browser.setup_plot: plot = Plot(base_gridspec, track_configs)
NewPlot ==
    /\ pc = "figure"
    /\ frames' = Plot_init.frames
    /\ frame_index' = Plot_init.frame_index
    /\ gs' = make_gridspec(track_configs)
    /\ calls' = Append(calls, [op |-> "gridspec", configs |-> track_configs])
    /\ pc' = IF Len(tracks) = 0 \/ Len(track_configs) = 0
             THEN "render" ELSE "frames"
    /\ UNCHANGED <<region, result, indexVars, storeVars, impl, tracks,
                   track_configs, figure, layouts, trackVars,
                   configVars, normVars, geneVars, readVars, labelVars,
                   rotateVars>>

\* Browser.setup_plot: one plot.add_frame(track, track_config) of the loop
\* over zip(self.tracks, track_configs)
AddFrame ==
    /\ pc = "frames"
    /\ LET k == Len(frames) + 1 IN
       /\ frames' = Append(frames, make_frame(k, frame_index))
       /\ frame_index' = next_frame_index(frame_index)
       /\ calls' = Append(calls, [op |-> "make_frame", track |-> k])
       /\ pc' = IF k = Len(tracks) \/ k = Len(track_configs)
                THEN "render" ELSE "frames"
    /\ UNCHANGED <<region, result, indexVars, storeVars, impl, tracks,
                   track_configs, figure, gs, layouts, trackVars,
                   configVars, normVars, geneVars, readVars, labelVars,
                   rotateVars>>

\* browser.core.Browser.plot: self.configure, then self.get_axes
GetAxes ==
    /\ pc = "config"
    /\ impl = "browser"
    /\ all_configured
    /\ figure' = make_base_gridspec(track_configs)
    /\ frames' = get_axes(track_configs)
    /\ calls' = Append(calls, [op |-> "get_axes", configs |-> track_configs])
    /\ pc' = "render"
    /\ UNCHANGED <<region, result, indexVars, storeVars, impl, tracks,
                   track_configs, gs, frame_index, layouts, trackVars,
                   configVars, normVars, geneVars, readVars, labelVars,
                   rotateVars>>

\* the frames that have not been plotted to
unplotted == {k \in DOMAIN frames : frames[k].results = NoValue}

\* Plot.do_plot: one frame['track'].plot(region, plot_ax, label_ax) of the
\* loop (one p.plot(ax, feature) in browser.core)
DoPlot ==
    /\ pc = "render"
    /\ unplotted # {}
    /\ LET k == Min(unplotted) IN
       \E out \in plot_outcomes(frame_track(k), region) :
          /\ calls' = Append(calls, [op |-> "plot",
                                     track |-> frame_track(k),
                                     region |-> region,
                                     frame |-> k,
                                     plot_ax |-> frame_plot_ax(k),
                                     label_ax |-> frame_label_ax(k),
                                     raised |-> out.kind = "TrackError"])
          /\ IF propagates(out)
             THEN /\ result' = out
                  /\ pc' = "done"
                  /\ UNCHANGED frames
             ELSE /\ frames' = [frames EXCEPT ![k].results = out]
                  /\ UNCHANGED <<pc, result>>
    /\ UNCHANGED <<region, indexVars, storeVars, impl, tracks,
                   track_configs, figure, gs, frame_index, layouts, trackVars,
                   configVars, normVars, geneVars, readVars, labelVars,
                   rotateVars>>

\* Browser.plot: return plot
ReturnPlot ==
    /\ pc = "render"
    /\ unplotted = {}
    /\ result' = [kind |-> "ok", frames |-> frames]
    /\ pc' = "done"
    /\ UNCHANGED <<region, indexVars, storeVars, layoutVars, trackVars,
                   configVars, normVars, geneVars, readVars, labelVars,
                   rotateVars>>

\* The caller asks the same browser for another plot, of any region.  The
\* Plot and the figure of the call before are the caller's and the browser
\* keeps no reference to them; the layout that call made is kept in layouts
\* for comparison, and the frame counter stays as that Plot left it until
\* Plot.__init__ runs again.  The caller goes on until a region has been
\* plotted a second time.
PlotAgain ==
    /\ pc = "done"
    /\ \A l \in layouts : l.region # region
    /\ layouts' = layouts \cup {[region |-> region,
                                  configs |-> track_configs,
                                  rows |-> frame_rows,
                                  geometry |-> geometry]}
    /\ region' \in PlotRegions
    /\ track_configs' = <<>>
    /\ calls' = <<>>
    /\ result' = NoValue
    /\ figure' = NoValue
    /\ gs' = NoValue
    /\ frames' = <<>>
    /\ pc' = "config"
    /\ UNCHANGED <<indexVars, storeVars, impl, tracks, frame_index,
                   trackVars, configVars, normVars, geneVars, readVars,
                   labelVars, rotateVars>>

NextLayout ==
    \/ GetConfig
    \/ MakeBaseGridspec
    \/ NewPlot
    \/ AddFrame
    \/ GetAxes
    \/ DoPlot
    \/ ReturnPlot
    \/ PlotAgain

SpecLayout == InitLayout /\ [][NextLayout]_vars

---------------------------------------------------------------------------
(* tracks/*.py: the get_config of every track class *)

\* a browser is 1..MaxWidth wide; a signal track is configured with a
\* height of 0..MaxHeight; a region needs 0..MaxGeneRows rows of genes
MaxWidth == 4
MaxHeight == 4
MaxGeneRows == 2

\* the row heights a browser is made with: 0.5, 1, 2 and 1.5
RowHeights ==
    {[num |-> 1, den |-> 2], [num |-> 1, den |-> 1],
     [num |-> 2, den |-> 1], [num |-> 3, den |-> 2]}

ConfigBrowsers ==
    {DefaultBrowser} \cup [width : 1 .. MaxWidth, rowheight : RowHeights]

\* the tracks of tracks/*.py, and a track class that leaves get_config as
\* tracks/base.py has it
TrackObjects ==
    {[kind |-> k] : k \in {"Track", "GenomicIntervalTrack", "LocationTrack",
                           "ScaleBarTrack", "SquareInteractionsTrack",
                           "TriangularInteractionsTrack"}}
    \cup {[kind |-> "GenomicSignalTrack", height |-> h] :
              h \in 0 .. MaxHeight}
    \cup {[kind |-> "GeneTrack", gene_rows |-> n] : n \in 0 .. MaxGeneRows}

\* a dict without keys
EmptyDict == [k \in {} |-> 0]

\* ceil of the positive fraction q
ceil(q) == (q.num + (q.den - 1)) \div q.den

\* browser.width / browser.rowheight: a floor division when the interpreter
\* is Python 2 and both are integers, a true division otherwise
width_in_rows(b, py) ==
    IF py = 2 /\ b.rowheight.den = 1
    THEN [num |-> b.width \div b.rowheight.num, den |-> 1]
    ELSE [num |-> b.width * b.rowheight.den, den |-> b.rowheight.num]

\* SquareInteractionsTrack.get_config
SquareInteractionsTrack_get_config(b, py) ==
    LET needed_rows == width_in_rows(b, py)
    IN [rows |-> ceil(needed_rows)]

\* the triangular track rounding its half down
TriangularInteractionsTrack_get_config_floor(b, py) ==
    [rows |-> width_in_rows(b, py).num \div (2 * width_in_rows(b, py).den)]

\* TriangularInteractionsTrack.get_config: needed_rows = width_in_rows / 2.
TriangularInteractionsTrack_get_config(b, py) ==
    LET needed_rows == [num |-> width_in_rows(b, py).num,
                        den |-> 2 * width_in_rows(b, py).den]
    IN [rows |-> ceil(needed_rows)]

\* GeneTrack.total_rows: len(self.gene_rows.rows) or 1
GeneTrack_total_rows(t) == IF t.gene_rows = 0 THEN 1 ELSE t.gene_rows

\* p.get_config(region, browser) for a track p of any class
track_get_config(t, r, b, py) ==
    CASE t.kind = "Track" -> EmptyDict
      [] t.kind = "GenomicSignalTrack" -> [rows |-> t.height]
      [] t.kind = "GeneTrack" -> [rows |-> GeneTrack_total_rows(t)]
      [] t.kind \in {"GenomicIntervalTrack", "LocationTrack",
                     "ScaleBarTrack"} -> [rows |-> 1]
      [] t.kind = "SquareInteractionsTrack" ->
            SquareInteractionsTrack_get_config(b, py)
      [] t.kind = "TriangularInteractionsTrack" ->
            TriangularInteractionsTrack_get_config(b, py)

InitConfig ==
    /\ pc = "start"
    /\ region \in PlotRegions
    /\ browser \in ConfigBrowsers
    /\ self_track \in TrackObjects
    /\ python \in {2, 3}
    /\ config = NoValue
    /\ result = NoValue
    /\ windows = <<>>
    /\ scores = NoValue
    /\ resolved = NoValue
    /\ StoreIdle
    /\ LayoutIdle
    /\ TrackIdle
    /\ NormIdle
    /\ GeneIdle
    /\ ReadIdle
    /\ LabelIdle
    /\ RotateIdle

\* an interactions track that fetches the matrix of the region from its
\* datafile to size itself
get_config_effects_fetching(t, r) ==
    [reads |-> IF t.kind \in {"GeneTrack", "SquareInteractionsTrack",
                               "TriangularInteractionsTrack"}
               THEN <<[op |-> "datafile", region |-> r]>> ELSE <<>>,
     renders |-> IF t.kind = "GeneTrack"
                 THEN <<[op |-> "scratch_figure", region |-> r]>> ELSE <<>>]

\* What a get_config does besides returning: GeneTrack.get_config reads the
\* genes of the region from its datafile (self.datafile.get_genes) and
\* draws them on a scratch figure to measure them (_get_gene_extents); the
\* get_config of every other track computes its answer and returns.
get_config_effects(t, r) ==
    [reads |-> IF t.kind = "GeneTrack"
               THEN <<[op |-> "datafile", region |-> r]>> ELSE <<>>,
     renders |-> IF t.kind = "GeneTrack"
                 THEN <<[op |-> "scratch_figure", region |-> r]>> ELSE <<>>]

\* Browser.plot: p.get_config(region, self)
TrackGetConfig ==
    /\ pc = "start"
    /\ config' = track_get_config(self_track, region, browser, python)
    /\ io' = io \o get_config_effects(self_track, region).reads
    /\ calls' = calls \o get_config_effects(self_track, region).renders
    /\ pc' = "configured"
    /\ UNCHANGED <<region, result, indexVars, backend, folder, table, path,
                   bins, data, impl, tracks, track_configs, figure, gs,
                   frames, frame_index, layouts, trackVars, browser,
                   self_track, python, normVars, geneVars, readVars,
                   labelVars, rotateVars>>

\* Browser._make_base_gridspec: sum([p['rows'] for p in track_configs])
SumRows ==
    /\ pc = "configured"
    /\ result' = IF "rows" \in DOMAIN config
                 THEN [kind |-> "ok", total_rows |-> config.rows]
                 ELSE [kind |-> "KeyError"]
    /\ pc' = "summed"
    /\ UNCHANGED <<region, indexVars, storeVars, layoutVars, trackVars,
                   configVars, normVars, geneVars, readVars, labelVars,
                   rotateVars>>

NextConfig == TrackGetConfig \/ SumRows

SpecConfig == InitConfig /\ [][NextConfig]_vars

---------------------------------------------------------------------------
(* tracks/interactions.py: SquareInteractionsTrack._plot over a store whose
   chromosome lacks some scores *)

\* at most MaxAbsent bin pairs have no score in the store
MaxAbsent == 3

\* a chromosome cut into n bins of one position each
unit_windows(chrom, n) ==
    format_windows(chrom, [i \in 1 .. n |-> <<i - 1, i>>])

\* the sets of bin pairs without a score, for a chromosome of n bins
AbsentSets(n) ==
    {a \in SUBSET dense_table(n) : Cardinality(a) <= MaxAbsent}

\* the matrix of a file of n bins that has NaN at the pairs of absent
file_interactions_with_nan(n, absent) ==
    LET cell == [p \in Indices(n, n) |->
                    IF p \in absent THEN NaN ELSE DiskValue(p[1], p[2])]
    IN Matrix(n, n, cell)

\* np.fill_diagonal stepping by the number of columns, without the "+ 1"
fill_diagonal_step_ncols(m) ==
    [m EXCEPT !.flat =
        [k \in DOMAIN m.flat |->
            IF k < m.ncols * m.ncols /\ k % m.ncols = 0
            THEN NaN ELSE m.flat[k]]]

\* np.fill_diagonal(data, np.NaN): a.flat[:ncols * ncols:ncols + 1] = val
fill_diagonal(m) ==
    [m EXCEPT !.flat =
        [k \in DOMAIN m.flat |->
            IF k < m.ncols * m.ncols /\ k % (m.ncols + 1) = 0
            THEN NaN ELSE m.flat[k]]]

\* InteractionsDbFile.interactions, from the first query to the return:
\* the results it can end in
db_interactions(w, tbl, feature) ==
    LET b == bins_from_feature(w, feature) IN
    IF b.kind # "ok"
    THEN {[kind |-> b.kind]}
    ELSE LET f == feature_from_bins(w, b.chrom, b.start, b.stop) IN
         {IF d.kind # "ok"
          THEN d
          ELSE IF f.kind # "ok"
          THEN [kind |-> f.kind]
          ELSE [kind |-> "ok", data |-> d.data, region |-> f.region] :
             d \in get_data_outcomes(tbl, b.start, b.stop)}

InitTrack ==
    /\ pc = "start"
    /\ backend \in {"my5c", "db"}
    /\ \E n \in 1 .. MaxWindows :
         /\ windows = unit_windows("chr1", n)
         /\ \E absent \in AbsentSets(n) :
              /\ table = IF backend = "db"
                         THEN dense_table(n) \ absent ELSE {}
              /\ scores = IF backend = "db"
                          THEN NoValue
                          ELSE file_interactions_with_nan(n, absent)
    /\ region \in {r \in Regions : r.chrom = "chr1" /\ r.start < r.stop}
    /\ folder = {}
    /\ path = NoValue
    /\ bins = NoValue
    /\ data = NoValue
    /\ io = <<>>
    /\ result = NoValue
    /\ resolved = NoValue
    /\ masked = NoValue
    /\ LayoutIdle
    /\ ConfigIdle
    /\ NormIdle
    /\ GeneIdle
    /\ ReadIdle
    /\ LabelIdle
    /\ RotateIdle

\* SquareInteractionsTrack._plot: self.datafile.interactions(region)
FetchInteractions ==
    /\ pc = "start"
    /\ result' \in IF backend = "db"
                    THEN db_interactions(windows, table, region)
                    ELSE {get_interactions(windows, scores, region)}
    /\ bins' = IF backend = "db"
               THEN bins_from_feature(windows, region) ELSE bins
    /\ pc' = "fetched"
    /\ UNCHANGED <<region, indexVars, backend, folder, table, path, data, io,
                   layoutVars, trackVars,
                   configVars, normVars, geneVars, readVars, labelVars,
                   rotateVars>>

\* SquareInteractionsTrack._plot: np.fill_diagonal(data, np.NaN)
RemoveDiagonal ==
    /\ pc = "fetched"
    /\ result.kind = "ok"
    /\ masked' = fill_diagonal(result.data)
    /\ pc' = "masked"
    /\ UNCHANGED <<region, result, indexVars, storeVars, layoutVars,
                   configVars, normVars, geneVars, readVars, labelVars,
                   rotateVars>>

NextTrack == FetchInteractions \/ RemoveDiagonal

SpecTrack == InitTrack /\ [][NextTrack]_vars

---------------------------------------------------------------------------
(* tracks/interactions.py: the quantile scaled normalizer *)

\* an array holds 1..MaxCells cells, each NaN or a score of 0..MaxValue
MaxCells == 4
MaxValue == 3

\* Percentiles are exact in twentieths of the distance between two values:
\* an array carries the number its cells are multiplied by.
PerValue == 20

\* the quantile a normalizer is made with (5 is the default), on both sides
\* of 50
Quantiles == {0, 5, 25, 50, 75, 95, 100}

CellValues == {NaN} \cup {Num(v) : v \in 0 .. MaxValue}

\* the arrays a track hands to imshow, flattened
Arrays ==
    {[scale |-> 1, cells |-> c] :
        c \in UNION {[1 .. n -> CellValues] : n \in 1 .. MaxCells}}

\* A[np.isfinite(A)], as the positions of the finite cells
isfinite(a) == {i \in DOMAIN a.cells : a.cells[i] # NaN}

\* the k-th smallest of the finite values of a, k from 1
kth_smallest(a, k) ==
    LET vals == [i \in isfinite(a) |-> a.cells[i][1]]
    IN CHOOSE v \in {vals[i] : i \in isfinite(a)} :
          /\ Cardinality({i \in isfinite(a) : vals[i] < v}) < k
          /\ Cardinality({i \in isfinite(a) : vals[i] <= v}) >= k

\* np.percentile(A[np.isfinite(A)], q) for q a multiple of 5, times
\* PerValue: linear interpolation between the two values around the rank
\* q / 100 * (n - 1)
percentile(a, q) ==
    LET n == Cardinality(isfinite(a))
        rank == (q \div 5) * (n - 1)
        lo == rank \div PerValue
        frac == rank % PerValue
        x == kth_smallest(a, lo + 1)
        y == IF frac = 0 THEN x ELSE kth_smallest(a, lo + 2)
    IN x * PerValue + frac * (y - x)

\* the lower percentile taken as given, without sorting the pair
qmin_unsorted(quantile) == quantile

\* qmin, qmax = sorted([quantile, 100. - quantile])
qmin(quantile) == Min({quantile, 100 - quantile})
qmax(quantile) == Max({quantile, 100 - quantile})

\* QuantileScaled.autoscale_None: vmin and vmax of a normalizer made with
\* quantile, for an array with a finite value
autoscale_None(a, quantile) ==
    [kind |-> "ok",
     quantile |-> quantile,
     scale |-> a.scale * PerValue,
     vmin |-> Num(percentile(a, qmin(quantile))),
     vmax |-> Num(percentile(a, qmax(quantile)))]

\* What autoscale_None can end in.  Without a finite value np.percentile is
\* handed an empty array: it raises or returns nan, depending on the numpy
\* release.
autoscale_outcomes(a, quantile) ==
    IF isfinite(a) # {}
    THEN {autoscale_None(a, quantile)}
    ELSE {[kind |-> "IndexError"],
          [kind |-> "ok", quantile |-> quantile,
           scale |-> a.scale * PerValue, vmin |-> NaN, vmax |-> NaN]}

\* a normalizer that holds values up to vmin and lets the high ones pass
clip_from_below(a, n) ==
    [scale |-> n.scale,
     cells |-> [i \in DOMAIN a.cells |->
                  IF a.cells[i] = NaN \/ n.vmin = NaN
                  THEN NaN
                  ELSE Num(Max({n.vmin[1], a.cells[i][1] * PerValue}))]]

\* plot_ax.imshow(data, norm=norm): a cell below vmin is drawn as vmin, a
\* cell above vmax as vmax, a NaN cell stays NaN
clip(a, n) ==
    [scale |-> n.scale,
     cells |-> [i \in DOMAIN a.cells |->
                  IF a.cells[i] = NaN \/ n.vmin = NaN
                  THEN NaN
                  ELSE Num(Max({n.vmin[1],
                                Min({n.vmax[1],
                                     a.cells[i][1] * PerValue})}))]]

InitNorm ==
    /\ pc = "start"
    /\ A \in Arrays
    /\ norm \in {[kind |-> "new", quantile |-> q] : q \in Quantiles}
    /\ image = NoValue
    /\ region \in {r \in PlotRegions : r.chrom = "chr1"}
    /\ result = NoValue
    /\ windows = <<>>
    /\ scores = NoValue
    /\ resolved = NoValue
    /\ StoreIdle
    /\ LayoutIdle
    /\ TrackIdle
    /\ ConfigIdle
    /\ GeneIdle
    /\ ReadIdle
    /\ LabelIdle
    /\ RotateIdle

\* norm(A): QuantileScaled.autoscale_None(A)
AutoscaleNone ==
    /\ pc = "start"
    /\ \E out \in autoscale_outcomes(A, norm.quantile) :
         IF out.kind = "ok"
         THEN norm' = out /\ pc' = "scaled" /\ UNCHANGED result
         ELSE result' = out /\ pc' = "done" /\ UNCHANGED norm
    /\ UNCHANGED <<region, indexVars, storeVars, layoutVars, trackVars,
                   configVars, A, image, geneVars, readVars, labelVars,
                   rotateVars>>

\* the values drawn for A under the normalizer
Imshow ==
    /\ pc = "scaled"
    /\ image' = clip(A, norm)
    /\ pc' = "clipped"
    /\ UNCHANGED <<region, result, indexVars, storeVars, layoutVars,
                   trackVars, configVars, A, norm, geneVars, readVars,
                   labelVars, rotateVars>>

\* the values drawn are normalized once more, with the same quantile
Reapply ==
    /\ pc = "clipped"
    /\ A.scale = 1
    /\ A' = image
    /\ norm' = [kind |-> "new", quantile |-> norm.quantile]
    /\ image' = NoValue
    /\ pc' = "start"
    /\ UNCHANGED <<region, result, indexVars, storeVars, layoutVars,
                   trackVars, configVars, geneVars, readVars, labelVars,
                   rotateVars>>

NextNorm == AutoscaleNone \/ Imshow \/ Reapply

SpecNorm == InitNorm /\ [][NextNorm]_vars

---------------------------------------------------------------------------
(* tracks/genes.py: GeneRows and the get_config and _plot of GeneTrack *)

\* a region has 0..MaxGenes genes, drawn between 0 and MaxExtent; a gene
\* track is asked for 1..MaxGeneCalls plots
MaxGenes == 3
MaxExtent == 2
MaxGeneCalls == 2

\* _get_gene_extent: start is the left end of the gene's line and stop the
\* right end of its line or label, times 1.1, in pixels of the scratch
\* figure: 0 <= start <= stop
Extents ==
    {x \in [start : 0 .. MaxExtent, stop : 0 .. MaxExtent] :
        x.start <= x.stop}

\* GeneRows.__init__: self.rows = []
GeneRows_init == <<>>

\* get_config going on with the rows the call before left
keep_rows(rows) == rows

\* GeneTrack.get_config: self.gene_rows.rows = []
reset_rows(rows) == <<>>

\* get_gene_row taking a row whose stop the gene touches
get_gene_row_touching(rows, start) ==
    LET fits == {i \in DOMAIN rows : start >= rows[i].stop}
    IN IF fits # {} THEN Min(fits) ELSE Len(rows) + 1

\* GeneRows.get_gene_row: the position of the first row with
\* start > row['stop'], or of the new row appended when there is none
get_gene_row(rows, start) ==
    LET fits == {i \in DOMAIN rows : start > rows[i].stop}
    IN IF fits # {} THEN Min(fits) ELSE Len(rows) + 1

\* GeneRows.add_gene: row = self.get_gene_row(start);
\* row['genes'].append(gene); row['stop'] = stop
add_gene(rows, gene, start, stop) ==
    LET i == get_gene_row(rows, start)
        with_row == IF i > Len(rows)
                    THEN Append(rows, [genes |-> <<>>, stop |-> 0])
                    ELSE rows
    IN [with_row EXCEPT ![i] = [genes |-> Append(with_row[i].genes, gene),
                                stop |-> stop]]

\* GeneTrack._plot: every gene of row i (from 0) is drawn with
\* row_index = 1.0 - (i * (1.0 / self.total_rows())); kept as i and the
\* total
plot_genes(rows) ==
    LET total == GeneTrack_total_rows([gene_rows |-> Len(rows)])
        ids == UNION {{rows[i].genes[j] : j \in DOMAIN rows[i].genes} :
                         i \in DOMAIN rows}
    IN [g \in ids |->
          [row |-> (CHOOSE i \in DOMAIN rows :
                       \E j \in DOMAIN rows[i].genes : rows[i].genes[j] = g)
                   - 1,
           total_rows |-> total]]

InitGenes ==
    /\ pc = "start"
    /\ region \in PlotRegions
    /\ gene_rows = GeneRows_init
    /\ genes = <<>>
    /\ drawn = NoValue
    /\ gene_calls = 1
    /\ config = NoValue
    /\ browser = DefaultBrowser
    /\ self_track = [kind |-> "GeneTrack"]
    /\ python = 0
    /\ result = NoValue
    /\ windows = <<>>
    /\ scores = NoValue
    /\ resolved = NoValue
    /\ StoreIdle
    /\ LayoutIdle
    /\ TrackIdle
    /\ NormIdle
    /\ ReadIdle
    /\ LabelIdle
    /\ RotateIdle

\* GeneTrack.get_config, up to the loop: the rows are emptied and the
\* datafile is asked for the genes of the region (get_genes and
\* _get_gene_extents are generators: the genes come one by one)
GetGenes ==
    /\ pc = "start"
    /\ gene_rows' = reset_rows(gene_rows)
    /\ genes' = <<>>
    /\ io' = Append(io, [op |-> "get_genes", region |-> region])
    /\ pc' = "adding"
    /\ UNCHANGED <<region, result, indexVars, backend, folder, table, path,
                   bins, data, layoutVars, trackVars, configVars, normVars,
                   drawn, gene_calls, readVars, labelVars, rotateVars>>

\* GeneTrack.get_config: one turn of the loop: the next gene of the region
\* comes with its extent and goes to self.gene_rows.add_gene(gene, start,
\* stop)
AddGene ==
    /\ pc = "adding"
    /\ Len(genes) < MaxGenes
    /\ \E e \in Extents :
         /\ genes' = Append(genes, e)
         /\ gene_rows' = add_gene(gene_rows, Len(genes) + 1, e.start, e.stop)
    /\ UNCHANGED <<pc, region, result, indexVars, storeVars, layoutVars,
                   trackVars, configVars, normVars, drawn, gene_calls,
                   readVars, labelVars, rotateVars>>

\* GeneTrack.get_config, the region has no more genes:
\* return {'rows': self.total_rows()}
ReturnConfig ==
    /\ pc = "adding"
    /\ config' = [rows |->
                    GeneTrack_total_rows([gene_rows |-> Len(gene_rows)])]
    /\ pc' = "configured"
    /\ UNCHANGED <<region, result, indexVars, storeVars, layoutVars,
                   trackVars, browser, self_track, python, normVars,
                   geneVars, readVars, labelVars, rotateVars>>

\* GeneTrack._plot
PlotGenes ==
    /\ pc = "configured"
    /\ drawn' = plot_genes(gene_rows)
    /\ pc' = "plotted"
    /\ UNCHANGED <<region, result, indexVars, storeVars, layoutVars,
                   trackVars, configVars, normVars, gene_rows, genes,
                   gene_calls, readVars, labelVars, rotateVars>>

\* The browser is asked for another plot, of any region: the track object
\* is the same, with the rows the last get_config left in it.
NextGenePlot ==
    /\ pc = "plotted"
    /\ gene_calls < MaxGeneCalls
    /\ gene_calls' = gene_calls + 1
    /\ region' \in PlotRegions
    /\ drawn' = NoValue
    /\ config' = NoValue
    /\ pc' = "start"
    /\ UNCHANGED <<result, indexVars, storeVars, layoutVars, trackVars,
                   browser, self_track, python, normVars, gene_rows,
                   genes, readVars, labelVars, rotateVars>>

NextGenes ==
    \/ GetGenes
    \/ AddGene
    \/ ReturnConfig
    \/ PlotGenes
    \/ NextGenePlot

SpecGenes == InitGenes /\ [][NextGenes]_vars

---------------------------------------------------------------------------
(* my5c_folder.py: repeated My5CFolder.interactions calls, the caller
   writing to the arrays it got *)

\* a caller makes 1..MaxReads calls
MaxReads == 2

\* the matrices a file can hold: every score there, or one of them NaN
DiskMatrices(n) ==
    {file_interactions_with_nan(n, a) :
        a \in {s \in AbsentSets(n) : Cardinality(s) <= 1}}

\* a folder that keeps the file object it made first
get_my5c_file_cached(objs, on_disk) ==
    IF objs = <<>> THEN <<on_disk>> ELSE objs

\* My5CFolder.get_my5c_file: self.file_class(my5c_path) makes a new file
\* object, whose __init__ reads the file (pd.read_csv / np.load); the
\* object made is the last of the list
get_my5c_file(objs, on_disk) == Append(objs, on_disk)

\* My5cFile.get_interactions on the file object at position o: the array
\* returned is a view of rows and columns start..stop - 1 of the object's
\* array (basic slicing does not copy)
get_interactions_view(w, objs, o, r) ==
    LET ix == index_from_interval(w, r)
        got == get_interactions(w, objs[o], r)
    IN IF got.kind # "ok"
       THEN got
       ELSE [kind |-> "ok", obj |-> o, start |-> ix.start, stop |-> ix.stop,
             data |-> got.data, region |-> got.region]

\* np.fill_diagonal(data, np.NaN) on the view of rows and columns
\* lo..hi - 1: the write lands in the array the view is taken from
fill_diagonal_of_view(m, lo, hi) ==
    [m EXCEPT !.flat =
        [k \in DOMAIN m.flat |->
            IF /\ k \div m.ncols = k % m.ncols
               /\ k \div m.ncols >= lo
               /\ k \div m.ncols < hi
            THEN NaN ELSE m.flat[k]]]

InitReads ==
    /\ pc = "start"
    /\ backend \in FolderBackends
    /\ \E n \in 1 .. MaxWindows :
         /\ windows = unit_windows("chr1", n)
         /\ disk \in DiskMatrices(n)
    /\ region \in {r \in Regions : r.chrom = "chr1" /\ r.start < r.stop}
    /\ objects = <<>>
    /\ returned = <<>>
    /\ scores = NoValue
    /\ resolved = NoValue
    /\ result = NoValue
    /\ folder = {}
    /\ table = {}
    /\ path = NoValue
    /\ bins = NoValue
    /\ data = NoValue
    /\ io = <<>>
    /\ LayoutIdle
    /\ TrackIdle
    /\ ConfigIdle
    /\ NormIdle
    /\ GeneIdle
    /\ LabelIdle
    /\ RotateIdle

\* My5CFolder.interactions(region), the folder holding one file of the
\* chromosome: get_my5c_file, then get_interactions on the object made
ReadInteractions ==
    /\ Len(returned) < MaxReads
    /\ objects' = get_my5c_file(objects, disk)
    /\ io' = Append(io, [op |-> IF backend = "npz" THEN "np.load"
                                                   ELSE "read_csv"])
    /\ returned' = Append(returned,
                          get_interactions_view(windows, objects',
                                                Len(objects'), region))
    /\ UNCHANGED <<pc, region, result, indexVars, backend, folder, table,
                   path, bins, data, layoutVars, trackVars, configVars,
                   normVars, geneVars, disk, labelVars, rotateVars>>

\* the arrays returned so far that the caller has not written to
untouched ==
    {i \in DOMAIN returned :
        /\ returned[i].kind = "ok"
        /\ \E d \in returned[i].start .. (returned[i].stop - 1) :
              Cell(objects[returned[i].obj], d, d) # NaN}

\* SquareInteractionsTrack._plot: np.fill_diagonal(data, np.NaN) on an
\* array a call returned
OverwriteDiagonal ==
    /\ \E i \in untouched :
         objects' = [objects EXCEPT ![returned[i].obj] =
                        fill_diagonal_of_view(@, returned[i].start,
                                              returned[i].stop)]
    /\ UNCHANGED <<pc, region, result, indexVars, storeVars, layoutVars,
                   trackVars, configVars, normVars, geneVars, disk,
                   returned, labelVars, rotateVars>>

NextReads == ReadInteractions \/ OverwriteDiagonal

SpecReads == InitReads /\ [][NextReads]_vars

---------------------------------------------------------------------------
(* tracks/location.py: the tick labels of LocationTrack._plot;
   utils.py: format_genomic_distance *)

\* an axis has 1..MaxTicks ticks; the search is followed up to precision
\* MaxPrecision
MaxTicks == 3
MaxPrecision == 3

\* Tick locations are floats: they are kept in tenths of a base pair.
Tenths == 10

\* format_genomic_distance: distance < 1000, distance < 1000000
KbFrom == 1000
MbFrom == 1000000

\* The locations a locator puts ticks at: 0, 0.2, 0.4, 1 and 500 bp, 1 kb,
\* 1.2 kb, 1.25 kb, 1 Mb and 1.25 Mb.  From 1000 bp on, any two of them
\* differ in the third decimal of their unit at the latest.
TickLocations ==
    {0, 2, 4, 10, 5000, 10000, 12000, 12500, 10000000, 12500000}

\* ax.xaxis.get_ticklocs(): an increasing array of distinct locations
TickLists ==
    {Ascending(S) : S \in {s \in SUBSET TickLocations :
                              Cardinality(s) \in 1 .. MaxTicks}}

RECURSIVE Pow10(_)
Pow10(n) == IF n = 0 THEN 1 ELSE 10 * Pow10(n - 1)

\* a / b rounded to the nearest integer, a tie going to the even one: what
\* '{0:.pf}'.format does with a value that is exact in binary
round_half_even(a, b) ==
    LET q == a \div b
        r == a % b
    IN IF 2 * r < b THEN q
       ELSE IF 2 * r > b THEN q + 1
       ELSE IF q % 2 = 0 THEN q ELSE q + 1

\* '{0:.pf}'.format(float(distance) / unit): the number of 10^-p units
\* printed, for a distance in tenths of a base pair and p up to the number
\* of decimals of a tenth of a base pair in that unit
format_float(distance, unit, p) ==
    LET tenths_per_step == (unit * Tenths) \div Pow10(p)
    IN round_half_even(distance, tenths_per_step)

\* format_genomic_distance(distance, precision): the string, as its unit,
\* its number of decimals and the number printed
format_genomic_distance(distance, p) ==
    IF distance < KbFrom * Tenths
    \* '{0:d}bp'.format(int(distance))
    THEN [unit |-> "bp", precision |-> 0, number |-> distance \div Tenths]
    ELSE IF distance < MbFrom * Tenths
    THEN [unit |-> "kb", precision |-> p,
          number |-> format_float(distance, KbFrom, p)]
    ELSE [unit |-> "Mb", precision |-> p,
          number |-> format_float(distance, MbFrom, p)]

\* [format_genomic_distance(l, precision) for l in tick_locations]
labels_at(locations, p) ==
    [i \in DOMAIN locations |-> format_genomic_distance(locations[i], p)]

\* len(set(new_labels)) != len(tick_locations), negated
all_distinct(labels) ==
    Cardinality({labels[i] : i \in DOMAIN labels}) = Len(labels)

InitLabel ==
    /\ pc = "start"
    /\ region \in PlotRegions
    /\ tick_locations = <<>>
    /\ precision = 0
    /\ new_labels = <<>>
    /\ result = NoValue
    /\ windows = <<>>
    /\ scores = NoValue
    /\ resolved = NoValue
    /\ StoreIdle
    /\ LayoutIdle
    /\ TrackIdle
    /\ ConfigIdle
    /\ NormIdle
    /\ GeneIdle
    /\ ReadIdle
    /\ RotateIdle

\* LocationTrack._plot: tick_locations = ax.xaxis.get_ticklocs();
\* precision = 0
GetTicklocs ==
    /\ pc = "start"
    /\ tick_locations' \in TickLists
    /\ precision' = 0
    /\ pc' = "searching"
    /\ UNCHANGED <<region, result, indexVars, storeVars, layoutVars,
                   trackVars, configVars, normVars, geneVars, readVars,
                   new_labels, rotateVars>>

\* LocationTrack._plot: one turn of the while loop
FormatLabels ==
    /\ pc = "searching"
    /\ precision <= MaxPrecision
    /\ new_labels' = labels_at(tick_locations, precision)
    /\ IF all_distinct(new_labels')
       THEN pc' = "labelled" /\ UNCHANGED precision
       ELSE precision' = precision + 1 /\ UNCHANGED pc
    /\ UNCHANGED <<region, result, indexVars, storeVars, layoutVars,
                   trackVars, configVars, normVars, geneVars, readVars,
                   tick_locations, rotateVars>>

\* LocationTrack._plot: ax.xaxis.set_ticklabels(new_labels), to the return
SetTicklabels ==
    /\ pc = "labelled"
    /\ result' = [kind |-> "ok", ticklabels |-> new_labels]
    /\ pc' = "done"
    /\ UNCHANGED <<region, indexVars, storeVars, layoutVars, trackVars,
                   configVars, normVars, geneVars, readVars, labelVars,
                   rotateVars>>

NextLabel == GetTicklocs \/ FormatLabels \/ SetTicklabels

SpecLabel == InitLabel /\ [][NextLabel]_vars

\* _plot runs on: every step of it that can be taken is taken
SpecLabelFair == SpecLabel /\ WF_vars(NextLabel)

---------------------------------------------------------------------------
(* tracks/interactions.py: rotate_heatmap *)

\* the matrix rotated has 1..MaxSide rows and columns
MaxSide == 2

\* data.copy() + 100 ... rot -= 100.
Bias == 100

\* The scores of a matrix to rotate: NaN, 0 and -100, whole numbers that
\* float arithmetic adds and subtracts exactly.
HeatmapValues == {NaN, Num(0), Num(0 - Bias)}

Heatmaps ==
    UNION {{Matrix(n, n, f) : f \in [Indices(n, n) -> HeatmapValues]} :
              n \in 1 .. MaxSide}

\* data.copy() + 100: NaN + 100 is NaN
add_bias(m) ==
    [m EXCEPT !.flat =
        [k \in DOMAIN m.flat |->
            IF m.flat[k] = NaN THEN NaN ELSE Num(m.flat[k][1] + Bias)]]

\* The cell of an n x n matrix that pixel (x, y) of the rotated and cropped
\* image shows, or NoValue for a pixel of the background.  The image is
\* followed on the grid of the cell centres: it is 2n - 1 pixels wide and n
\* high; rotate(45) turns the matrix counter-clockwise, which lays the
\* diagonal on the bottom row of the upper half that crop keeps and brings
\* cell (0, n - 1) to the top; a pixel between two centres shows the cell
\* to its left (resampling to the nearest pixel, the default of rotate);
\* FLIP_TOP_BOTTOM reverses the rows.
sampled_cell(n, flipped, x, y) ==
    LET row == IF flipped THEN (n - 1) - y ELSE y
        d == (n - 1) - row
        at == IF (x - d) % 2 = 0 THEN x ELSE x - 1
    IN IF at >= d /\ at <= (2 * n - 2) - d
       THEN [kind |-> "cell", r |-> (at - d) \div 2, c |-> (at + d) \div 2]
       ELSE NoValue

\* resize, rotate(45, expand=True), crop and the optional transpose: a
\* pixel of the background is 0
project(m, flipped) ==
    LET n == m.nrows
        px == [p \in Indices(n, 2 * n - 1) |->
                  LET s == sampled_cell(n, flipped, p[2], p[1])
                  IN IF s = NoValue THEN Num(0) ELSE Cell(m, s.r, s.c)]
    IN Matrix(n, 2 * n - 1, px)

\* rot[rot == 0.] = np.NAN
background_to_nan(m) ==
    [m EXCEPT !.flat =
        [k \in DOMAIN m.flat |-> IF m.flat[k] = Num(0) THEN NaN
                                                     ELSE m.flat[k]]]

\* rot -= 100.
subtract_bias(m) ==
    [m EXCEPT !.flat =
        [k \in DOMAIN m.flat |->
            IF m.flat[k] = NaN THEN NaN ELSE Num(m.flat[k][1] - Bias)]]

InitRotate ==
    /\ pc = "start"
    /\ heatmap \in Heatmaps
    /\ flip \in BOOLEAN
    /\ rot = NoValue
    /\ region \in {r \in PlotRegions : r.chrom = "chr1"}
    /\ result = NoValue
    /\ windows = <<>>
    /\ scores = NoValue
    /\ resolved = NoValue
    /\ StoreIdle
    /\ LayoutIdle
    /\ TrackIdle
    /\ ConfigIdle
    /\ NormIdle
    /\ GeneIdle
    /\ ReadIdle
    /\ LabelIdle

\* _image = Image.fromarray(data.copy() + 100)
FromArray ==
    /\ pc = "start"
    /\ rot' = add_bias(heatmap)
    /\ pc' = "image"
    /\ UNCHANGED <<region, result, indexVars, storeVars, layoutVars,
                   trackVars, configVars, normVars, geneVars, readVars,
                   labelVars, heatmap, flip>>

\* _image.resize, _image.rotate, rot.crop, rot.transpose if flip
RotateAndCrop ==
    /\ pc = "image"
    /\ rot' = project(rot, flip)
    /\ pc' = "rotated"
    /\ UNCHANGED <<region, result, indexVars, storeVars, layoutVars,
                   trackVars, configVars, normVars, geneVars, readVars,
                   labelVars, heatmap, flip>>

\* rot = np.array(rot); rot[rot == 0.] = np.NAN; rot -= 100.; return rot
RestoreAndReturn ==
    /\ pc = "rotated"
    /\ rot' = subtract_bias(background_to_nan(rot))
    /\ result' = [kind |-> "ok", data |-> rot']
    /\ pc' = "done"
    /\ UNCHANGED <<region, indexVars, storeVars, layoutVars, trackVars,
                   configVars, normVars, geneVars, readVars, labelVars,
                   heatmap, flip>>

NextRotate == FromArray \/ RotateAndCrop \/ RestoreAndReturn

SpecRotate == InitRotate /\ [][NextRotate]_vars

---------------------------------------------------------------------------
(* Properties of the window index *)

\* the half-open overlap test of a window and a region
Overlaps(w, r) == w.chrom = r.chrom /\ w.stop > r.start /\ w.start < r.stop

\* windows of one chromosome are in order of start and do not overlap
SortedNonOverlapping(w) ==
    \A i, j \in DOMAIN w :
        (i < j /\ w[i].chrom = w[j].chrom) => w[i].stop <= w[j].start

\* C1: for sorted, non-overlapping windows and a region with start < stop
\* that overlaps at least one window, index_from_interval returns a range
\* [start, stop) holding exactly the indices of the overlapping windows.
C1_RangeIsTheOverlappingWindows ==
    ( /\ pc = "indexed"
      /\ SortedNonOverlapping(windows)
      /\ region.start < region.stop
      /\ \E i \in DOMAIN windows : Overlaps(windows[i], region) )
    => /\ result.kind = "ok"
       /\ \A i \in DOMAIN windows :
            (result.start <= i - 1 /\ i - 1 < result.stop)
                <=> Overlaps(windows[i], region)

\* a range of two windows out of three, the third one outside the region
C1_Witness ==
    /\ pc = "indexed"
    /\ result.kind = "ok"
    /\ result.stop - result.start = 2
    /\ Len(windows) = 3
    /\ SortedNonOverlapping(windows)

\* C2 as stated: the resolved region always contains the requested one.
C2_SnappingNeverShrinks ==
    pc = "resolved"
    => /\ resolved.chrom = region.chrom
       /\ resolved.start <= region.start
       /\ resolved.stop >= region.stop

\* position p lies in a window of the region's chromosome, as a start
\* (window.start <= p < window.stop)
StartInsideAWindow(w, r) ==
    \E i \in DOMAIN w :
        w[i].chrom = r.chrom /\ w[i].start <= r.start /\ r.start < w[i].stop

\* position p lies in a window of the region's chromosome, as a stop
\* (window.start < p <= window.stop)
StopInsideAWindow(w, r) ==
    \E i \in DOMAIN w :
        w[i].chrom = r.chrom /\ w[i].start < r.stop /\ r.stop <= w[i].stop

\* C2, amended: for sorted, non-overlapping windows the resolved region is
\* on the region's chromosome and is the span of the overlapping windows;
\* it reaches down to region.start when region.start lies inside a window
\* and up to region.stop when region.stop lies inside a window.
C2_SnappingCoversWhatTheWindowsCover ==
    (pc = "resolved" /\ SortedNonOverlapping(windows))
    => /\ resolved.chrom = region.chrom
       /\ \E i, j \in DOMAIN windows :
            /\ Overlaps(windows[i], region)
            /\ Overlaps(windows[j], region)
            /\ resolved.start = windows[i].start
            /\ resolved.stop = windows[j].stop
            /\ \A k \in DOMAIN windows :
                 Overlaps(windows[k], region) => i <= k /\ k <= j
       /\ StartInsideAWindow(windows, region)
            => resolved.start <= region.start
       /\ StopInsideAWindow(windows, region)
            => resolved.stop >= region.stop

\* a region inside the windows that is snapped outwards at both ends, over
\* more than one window
C2_Witness ==
    /\ pc = "resolved"
    /\ StartInsideAWindow(windows, region)
    /\ StopInsideAWindow(windows, region)
    /\ resolved.start < region.start
    /\ resolved.stop > region.stop
    /\ result.stop - result.start >= 2

\* C5: a region with start >= stop is answered with ValueError, and no
\* indices or resolved region are ever produced for it.
C5_InvalidRegionRejected ==
    (pc # "start" /\ region.start >= region.stop)
    => /\ result = [kind |-> "ValueError"]
       /\ pc = "indexed"
       /\ resolved = NoValue

\* an inverted region on the chromosome of the file, rejected
C5_Witness ==
    /\ pc = "indexed"
    /\ region.start > region.stop
    /\ region.chrom \in chrom_level(windows)
    /\ result.kind = "ValueError"

\* C7: when no window has the region's chromosome, a valid region is
\* answered with InvalidChromError and no indices.
C7_UnknownChromosomeRaised ==
    ( /\ pc # "start"
      /\ region.start < region.stop
      /\ \A i \in DOMAIN windows : windows[i].chrom # region.chrom )
    => /\ result = [kind |-> "InvalidChromError"]
       /\ pc = "indexed"
       /\ resolved = NoValue

\* a valid region whose coordinates fall on windows of another chromosome
C7_Witness ==
    /\ pc = "indexed"
    /\ result.kind = "InvalidChromError"
    /\ region.start < region.stop
    /\ \E i \in DOMAIN windows :
         windows[i].stop > region.start /\ windows[i].start < region.stop

\* C12: a valid region that starts at the start of a window and stops at
\* the stop of a window of the same chromosome gets the indices of these
\* two windows (first, last + 1), and these indices resolve to the region
\* itself.
C12_AlignedRegionResolvesToItself ==
    \A a, b \in DOMAIN windows :
        ( /\ pc # "start"
          /\ a <= b
          /\ windows[a].chrom = region.chrom
          /\ windows[b].chrom = region.chrom
          /\ windows[a].start = region.start
          /\ windows[b].stop = region.stop )
        => /\ result = [kind |-> "ok", start |-> a - 1, stop |-> b]
           /\ pc = "resolved" => resolved = region

\* windows that follow each other without a gap
Contiguous(w) == \A i \in 1 .. (Len(w) - 1) : w[i].stop = w[i + 1].start

\* the middle and last window of three contiguous ones, asked for exactly
C12_Witness ==
    /\ pc = "resolved"
    /\ Len(windows) = 3
    /\ Contiguous(windows)
    /\ region.start = windows[2].start
    /\ region.stop = windows[3].stop
    /\ region.chrom = windows[1].chrom
    /\ result.start = 1
    /\ result.stop = 3
    /\ resolved = region

\* C25: a valid region on a chromosome that has windows, none of which
\* overlaps the region, is answered with neither ValueError nor
\* InvalidChromError and with no index pair: the read of covered_windows[0]
\* fails with IndexError, and nothing is resolved.
C25_EmptySelectionIsIndexError ==
    ( /\ pc # "start"
      /\ region.start < region.stop
      /\ \E i \in DOMAIN windows : windows[i].chrom = region.chrom
      /\ \A i \in DOMAIN windows :
            windows[i].chrom = region.chrom
            => ~ (windows[i].stop > region.start
                  /\ windows[i].start < region.stop) )
    => /\ result = [kind |-> "IndexError"]
       /\ pc = "indexed"
       /\ resolved = NoValue

\* a valid region in the gap between two windows of its chromosome
C25_Witness ==
    /\ pc = "indexed"
    /\ result.kind = "IndexError"
    /\ Len(windows) >= 2
    /\ region.chrom = windows[1].chrom
    /\ region.start < region.stop
    /\ windows[1].stop <= region.start
    /\ region.stop <= windows[2].start

---------------------------------------------------------------------------
(* Properties of the stores *)

\* C11: when the file of a folder store gives the region the index range
\* (s, e), interactions returns the e - s by e - s matrix whose cell (i, j)
\* is cell (s + i, s + j) of the file's matrix, and the region from the
\* start of window s to the stop of window e - 1.
C11_DenseSlice ==
    ( /\ backend \in FolderBackends
      /\ pc = "done"
      /\ scores # NoValue
      /\ index_from_interval(windows, region).kind = "ok" )
    => LET s == index_from_interval(windows, region).start
           e == index_from_interval(windows, region).stop
       IN /\ result.kind = "ok"
          /\ result.data.nrows = e - s
          /\ result.data.ncols = e - s
          /\ \A i, j \in 0 .. ((e - s) - 1) :
               Cell(result.data, i, j) = Cell(scores, s + i, s + j)
          /\ result.region = indices_to_interval(windows, s, e)
          /\ result.region.start = windows[s + 1].start
          /\ result.region.stop = windows[e].stop

\* the last two of the three bins of a file are returned
C11_Witness ==
    /\ backend \in FolderBackends
    /\ pc = "done"
    /\ result.kind = "ok"
    /\ Len(windows) = 3
    /\ result.data.nrows = 2
    /\ Cell(result.data, 0, 1) = Cell(scores, 1, 2)
    /\ result.region.start = windows[2].start
    /\ result.region.stop = windows[3].stop

\* C6 as stated: on every backend a region with start = stop is answered
\* with ValueError (InvalidRegion), and nothing has been listed, read or
\* queried for it at any time.
C6_EmptyRegionRejectedBeforeIO ==
    (region.start = region.stop)
    => /\ io = <<>>
       /\ pc = "done" => result = [kind |-> "ValueError"]

\* the number of files of the folder that match the region's chromosome
Matching == Cardinality({f \in folder : glob_matches(f, region.chrom)})

\* C8: a folder-store lookup with no matching file ends in NoFilesError,
\* one with several matching files in TooManyFilesError, in both cases
\* after one directory listing and no file read; with exactly one match
\* that file is the one returned.
C8_FileLookup ==
    (backend \in FolderBackends /\ pc # "start")
    => /\ Matching = 0
            => /\ pc = "done"
               /\ result = [kind |-> "NoFilesError"]
               /\ io = <<[op |-> "glob"]>>
               /\ path = NoValue
       /\ Matching > 1
            => /\ pc = "done"
               /\ result = [kind |-> "TooManyFilesError"]
               /\ io = <<[op |-> "glob"]>>
               /\ path = NoValue
       /\ Matching = 1
            => /\ path \in folder
               /\ glob_matches(path, region.chrom)
               /\ io[1] = [op |-> "glob"]
               /\ \A k \in 2 .. Len(io) : io[k].op # "glob"

\* two files of the folder match the chromosome and the call has failed
C8_Witness ==
    /\ backend \in FolderBackends
    /\ pc = "done"
    /\ Matching = 2
    /\ result.kind = "TooManyFilesError"
    /\ Cardinality(folder) > 2

\* window k of w is the window of chrom with the greatest start <= position
FloorWindow(w, k, chrom, position) ==
    /\ k \in DOMAIN w
    /\ w[k].chrom = chrom
    /\ w[k].start <= position
    /\ \A j \in DOMAIN w :
         (w[j].chrom = chrom /\ w[j].start <= position)
            => w[j].start <= w[k].start

\* C19: in the SQL store, the bin found for a position is the index of the
\* window of the chromosome with the greatest start <= position, whenever
\* the chromosome has a window that starts at or before the position; the
\* location looked up for that bin is the start and stop of that window,
\* so the start returned is <= the position.
C19_FloorLookup ==
    backend = "db"
    => /\ (pc # "start" /\ \E k \in DOMAIN windows :
                              /\ windows[k].chrom = region.chrom
                              /\ windows[k].start <= region.start
                              /\ windows[k].start <= region.stop)
            => bins # NoValue
       /\ bins # NoValue
            => /\ FloorWindow(windows, bins.start + 1, region.chrom,
                              region.start)
               /\ FloorWindow(windows, bins.stop + 1, region.chrom,
                              region.stop)
       /\ (pc = "done" /\ bins # NoValue /\ data # NoValue)
            => /\ result.kind = "ok"
               /\ result.region.chrom = region.chrom
               /\ result.region.start = windows[bins.start + 1].start
               /\ result.region.start <= region.start
               /\ result.region.stop = windows[bins.stop + 1].stop
               /\ windows[bins.stop + 1].start <= region.stop

\* a position inside the third of three windows, with a gap before it
C19_Witness ==
    /\ backend = "db"
    /\ pc = "done"
    /\ result.kind = "ok"
    /\ Len(windows) = 3
    /\ bins.start = 1
    /\ bins.stop = 2
    /\ windows[2].stop < windows[3].start
    /\ windows[3].start < region.stop
    /\ windows[2].start < region.start
    /\ result.region.start = windows[2].start

\* C24: over a contiguous window table and a valid region that some window
\* overlaps, the SQL store resolves the bins start_bin..stop_bin that are
\* exactly the windows overlapping the region (the range index_from_interval
\* selects), and the region it returns is the one these windows span.
C24_SqlResolvesDenseBins ==
    ( /\ backend = "db"
      /\ pc # "start"
      /\ Contiguous(windows)
      /\ region.start < region.stop
      /\ \E k \in DOMAIN windows : Overlaps(windows[k], region) )
    => LET ix == index_from_interval(windows, region) IN
       /\ bins # NoValue
       /\ bins.start = ix.start
       /\ bins.stop = ix.stop - 1
       /\ {k \in DOMAIN windows : Overlaps(windows[k], region)}
             = {b + 1 : b \in bins.start .. bins.stop}
       /\ (pc = "done" /\ result.kind = "ok")
          => result.region
                = indices_to_interval(windows, ix.start, ix.stop)

---------------------------------------------------------------------------
(* Properties of the layout *)

\* C3: once the frames are allocated, the grid is as high as the sum of
\* the declared rows, and frame k starts at the sum of the rows declared
\* by the tracks before it and spans the rows its own track declared.
C3_AllocationGeometry ==
    (pc \in {"render", "done"})
    => /\ Len(frames) = Len(tracks)
       /\ grid_rows = SumFirst(tracks, Len(tracks))
       /\ \A k \in DOMAIN tracks :
            /\ frame_offset(k) = SumFirst(tracks, k - 1)
            /\ frame_span(k) = tracks[k]

\* the declarations [2, 4, 1], allocated by core.py
C3_Witness ==
    /\ pc = "render"
    /\ impl = "EIYBrowse"
    /\ tracks = <<2, 4, 1>>
    /\ grid_rows = 7
    /\ frame_offset(3) = 6

AllocationOps == {"figure", "gridspec", "make_frame", "get_axes"}
FrameOps == {"make_frame", "get_axes"}

\* C4: the calls of one plot are, in this order: get_config on every track
\* in track order with the requested region; the allocation, which is
\* handed the declarations of all tracks in track order; the plot calls,
\* the first of them after the last frame is allocated.
C4_PhaseOrder ==
    /\ \A i, j \in DOMAIN calls :
         (i < j /\ calls[j].op = "get_config") => calls[i].op = "get_config"
    /\ \A i \in DOMAIN calls :
         calls[i].op = "get_config"
            => calls[i].track = i /\ calls[i].region = region
    /\ \A j \in DOMAIN calls :
         calls[j].op \in AllocationOps
            => /\ \A i \in DOMAIN tracks :
                    i <= Len(calls) /\ calls[i].op = "get_config"
               /\ calls[j].op # "make_frame"
                    => calls[j].configs =
                         [i \in DOMAIN tracks |-> [rows |-> tracks[i]]]
    /\ \A j \in DOMAIN calls :
         calls[j].op = "plot"
            => /\ Len(frames) = Len(tracks)
               /\ \A i \in DOMAIN calls :
                    calls[i].op \in AllocationOps => i < j

\* a finished plot of three tracks
C4_Witness ==
    /\ pc = "done"
    /\ Len(tracks) = 3
    /\ Len(calls) > 2 * Len(tracks)
    /\ calls[Len(calls)].op = "plot"

\* the plot calls made so far, in order
PlotCalls ==
    LET IsPlot(c) == c.op = "plot" IN SelectSeq(calls, IsPlot)

\* C13: the k-th plot call of a run is made on track k, with the requested
\* region and the data and label axes of frame k, which no other call is
\* handed; what it returns is stored in frame k and nowhere else; a plot
\* that returns normally has called every track once.
C13_RenderDispatch ==
    /\ \A k \in DOMAIN PlotCalls :
         /\ PlotCalls[k].track = k
         /\ PlotCalls[k].region = region
         /\ PlotCalls[k].frame = k
         /\ PlotCalls[k].plot_ax = frame_plot_ax(k)
         /\ PlotCalls[k].label_ax = frame_label_ax(k)
         /\ impl = "EIYBrowse" => frames[k].track = k
    /\ \A j, k \in DOMAIN PlotCalls :
         j # k => PlotCalls[j].plot_ax # PlotCalls[k].plot_ax
    /\ \A j, k \in DOMAIN frames :
         j # k => /\ frame_plot_ax(j) # frame_plot_ax(k)
                  /\ impl = "EIYBrowse"
                       => frame_label_ax(j) # frame_label_ax(k)
    /\ pc \in {"render", "done"}
         => \A k \in DOMAIN frames :
              frames[k].results =
                 IF k <= Len(PlotCalls) /\ ~ PlotCalls[k].raised
                 THEN plot_result(k, region) ELSE NoValue
    /\ (pc = "done" /\ result.kind = "ok")
         => Len(PlotCalls) = Len(tracks)

\* three tracks drawn by core.py, each on its own frame
C13_Witness ==
    /\ pc = "done"
    /\ result.kind = "ok"
    /\ impl = "EIYBrowse"
    /\ Len(tracks) = 3
    /\ Len(PlotCalls) = 3
    /\ PlotCalls[3].plot_ax = <<2, 1>>
    /\ frames[2].results = plot_result(2, region)

\* C14: when the plot of track k raises, that call is the last call of the
\* run, the run ends with this error and without a Plot or any results,
\* and the tracks after k are never plotted; a finished run has either
\* plotted every track or ended with the error of the track that raised.
C14_FailFast ==
    /\ \A i \in DOMAIN calls :
         (calls[i].op = "plot" /\ calls[i].raised)
            => /\ i = Len(calls)
               /\ pc = "done"
               /\ result = [kind |-> "TrackError", track |-> calls[i].track]
               /\ \A k \in DOMAIN frames :
                    k >= calls[i].track => frames[k].results = NoValue
    /\ pc = "done"
         => \/ /\ result.kind = "ok"
               /\ \A k \in DOMAIN tracks : frames[k].results.kind = "drawn"
            \/ /\ result.kind = "TrackError"
               /\ calls[Len(calls)].raised
               /\ calls[Len(calls)].track = result.track

\* the second of three tracks raised: the first is drawn, the third is not
C14_Witness ==
    /\ pc = "done"
    /\ Len(tracks) = 3
    /\ result = [kind |-> "TrackError", track |-> 2]
    /\ frames[1].results.kind = "drawn"
    /\ frames[3].results = NoValue
    /\ Len(PlotCalls) = 2

\* C15: a plot call lays its frames out exactly as every earlier call of
\* the same browser that had the same region, and as every earlier call
\* that collected the same declarations, whatever calls came in between:
\* same grid rows, same total, same offsets and spans.
C15_LayoutDeterminism ==
    pc \in {"render", "done"}
    => \A l \in layouts :
         (l.region = region \/ l.configs = track_configs)
         => /\ l.configs = track_configs
            /\ l.rows = frame_rows
            /\ l.geometry = geometry

\* the third plot of a browser of three tracks, of the region of the first
\* plot, after a plot of another region
C15_Witness ==
    /\ pc = "done"
    /\ Cardinality(layouts) = 2
    /\ Len(tracks) = 3
    /\ impl = "EIYBrowse"
    /\ Cardinality({l.region : l \in layouts}) = 2
    /\ \E l \in layouts : l.region = region /\ l.geometry = geometry

\* C18: the figure is as wide as the browser (16 by default) and as high
\* as the sum of the declared rows times the row height (0.5 by default).
C18_FigureSize ==
    figure # NoValue /\ pc # "config"
    => /\ figure.width = browser.width
       /\ figure.height.num * browser.rowheight.den =
             SumFirst(tracks, Len(tracks)) * browser.rowheight.num
                * figure.height.den
       /\ browser = DefaultBrowser
            => /\ figure.width = 16
               /\ 2 * figure.height.num =
                     SumFirst(tracks, Len(tracks)) * figure.height.den

\* the declarations [2, 4] in a default browser: a figure of 16 by 3.0
C18_Witness ==
    /\ pc = "render"
    /\ tracks = <<2, 4>>
    /\ browser = DefaultBrowser
    /\ figure.width = 16
    /\ figure.height.num = 3 * figure.height.den

\* C30: from Plot.__init__ on, through every add_frame, frame_index is the
\* number of frames; once setup_plot has returned there is one frame per
\* track and per grid row, and the i-th frame (from 0) holds the i-th track
\* and the axes of grid row i.
C30_PlotBookkeeping ==
    (impl = "EIYBrowse" /\ pc \in {"frames", "render", "done"})
    => /\ frame_index = Len(frames)
       /\ \A k \in DOMAIN frames :
             /\ frames[k].track = k
             /\ frames[k].row_index = k - 1
             /\ frames[k].label_ax = <<k - 1, 0>>
             /\ frames[k].plot_ax = <<k - 1, 1>>
       /\ pc \in {"render", "done"}
          => /\ Len(frames) = Len(tracks)
             /\ Len(frames) = gs.nrows
             /\ Len(frames) = Len(gs.height_ratios)

\* the second plot a browser of three tracks makes, drawn to the end
C30_Witness ==
    /\ impl = "EIYBrowse"
    /\ pc = "done"
    /\ result.kind = "ok"
    /\ layouts # {}
    /\ Len(tracks) = 3
    /\ Len(frames) = 3
    /\ frame_index = 3

---------------------------------------------------------------------------
(* Properties of the declarations *)

\* C16 as stated: whatever the track, the region and the browser, the
\* declaration get_config returns has a 'rows' entry that is an integer
\* of at least 1.
C16_DeclarationsValid ==
    pc \in {"configured", "summed"}
    => /\ "rows" \in DOMAIN config
       /\ config.rows \in Nat
       /\ config.rows >= 1

\* the rows a square and a triangular interactions track ask for in the
\* browser and interpreter of this run
SquareRows == SquareInteractionsTrack_get_config(browser, python).rows
TriangularRows == TriangularInteractionsTrack_get_config(browser, python).rows

\* the declaration in hand is the one of an interactions track
InteractionsConfigured ==
    /\ pc \in {"configured", "summed"}
    /\ \/ self_track.kind = "SquareInteractionsTrack"
          /\ config.rows = SquareRows
       \/ self_track.kind = "TriangularInteractionsTrack"
          /\ config.rows = TriangularRows

\* C17 as stated: for every width and row height the square track asks
\* for exactly twice the rows of the triangular track.
C17_SquareIsTwiceTriangular ==
    InteractionsConfigured => SquareRows = 2 * TriangularRows

\* C17, amended: the triangular track asks for half the rows of the
\* square track, rounded up: twice its rows are the rows of the square
\* track when that number is even, and one more when it is odd.
C17_TriangularIsHalfRoundedUp ==
    ( /\ pc \in {"configured", "summed"}
      /\ self_track.kind \in {"SquareInteractionsTrack",
                               "TriangularInteractionsTrack"} )
    => /\ InteractionsConfigured
       /\ TriangularRows = (SquareRows + 1) \div 2
       /\ SquareRows % 2 = 0 => SquareRows = 2 * TriangularRows
       /\ SquareRows % 2 = 1 => SquareRows + 1 = 2 * TriangularRows

\* the default browser (16 wide, rows of 0.5): 32 and 16 rows
C17_Witness ==
    /\ pc = "configured"
    /\ browser = DefaultBrowser
    /\ self_track.kind = "TriangularInteractionsTrack"
    /\ config.rows = 16
    /\ SquareRows = 32

\* C26: the get_config of a square or triangular interactions track reads
\* nothing from a datafile and draws nothing, and the rows it declares are
\* a function of the browser's width and row height: the same for every
\* region.
C26_SizeIndependentOfData ==
    ( /\ pc \in {"configured", "summed"}
      /\ self_track.kind \in {"SquareInteractionsTrack",
                               "TriangularInteractionsTrack"} )
    => /\ io = <<>>
       /\ calls = <<>>
       /\ data = NoValue
       /\ config.rows = IF self_track.kind = "SquareInteractionsTrack"
                        THEN SquareRows ELSE TriangularRows
       /\ \A r \in PlotRegions :
             /\ track_get_config(self_track, r, browser, python) = config
             /\ get_config_effects(self_track, r).reads = <<>>
             /\ get_config_effects(self_track, r).renders = <<>>

\* a triangular track configured for chr2 in a narrow browser
C26_Witness ==
    /\ pc = "configured"
    /\ self_track.kind = "TriangularInteractionsTrack"
    /\ region.chrom = "chr2"
    /\ browser.width = 3
    /\ browser.rowheight = [num |-> 1, den |-> 1]
    /\ config.rows = 2
    /\ io = <<>>

---------------------------------------------------------------------------
(* Properties of the gene track *)

\* the genes of row i of the track, in the order they were added
RowGenes(i) == gene_rows[i].genes

\* the genes that were in row j when gene k was added
InRowBefore(j, k) ==
    {RowGenes(j)[a] : a \in {b \in DOMAIN RowGenes(j) : RowGenes(j)[b] < k}}

\* C23: in every row a gene starts strictly after the stop of every gene
\* added to the row before it; a gene is in the first of the rows that
\* existed when it was added whose stop was below its start, and it opened
\* a new row only when no row that existed had its stop below its start.
C23_RowsNeverOverlap ==
    pc \in {"adding", "configured", "plotted"}
    => \A i \in DOMAIN gene_rows :
         /\ RowGenes(i) # <<>>
         /\ gene_rows[i].stop = genes[RowGenes(i)[Len(RowGenes(i))]].stop
         /\ \A b \in DOMAIN RowGenes(i) :
              LET k == RowGenes(i)[b] IN
              \* the genes of the row are in the order of the calls
              /\ \A a \in 1 .. (b - 1) :
                   /\ RowGenes(i)[a] < k
                   /\ genes[k].start > genes[RowGenes(i)[a]].stop
              \* no row above this one could take the gene
              /\ \A j \in 1 .. (i - 1) :
                   /\ InRowBefore(j, k) # {}
                   /\ genes[k].start <= genes[Max(InRowBefore(j, k))].stop
              \* a gene that opened its row found no row below this one
              /\ b = 1 => \A j \in (i + 1) .. Len(gene_rows) :
                              InRowBefore(j, k) = {}

\* three genes: the third fits behind the first, the second needed a row
C23_Witness ==
    /\ pc = "configured"
    /\ Len(genes) = 3
    /\ Len(gene_rows) = 2
    /\ gene_rows[1].genes = <<1, 3>>
    /\ gene_rows[2].genes = <<2>>
    /\ genes[3].start > genes[1].stop
    /\ genes[2].start <= genes[1].stop

RECURSIVE RowsFromEmpty(_, _)
\* the rows a new GeneRows holds after the first n genes of l are added
RowsFromEmpty(l, n) ==
    IF n = 0
    THEN GeneRows_init
    ELSE add_gene(RowsFromEmpty(l, n - 1), n, l[n].start, l[n].stop)

\* C27: in every plot call made with the same gene track, whatever the
\* calls before it, the rows get_config declares and the row _plot draws
\* each gene in are those of the genes of this call's region added to an
\* empty set of rows; a region without genes declares 1 row.
C27_GeneRowsNotCarriedOver ==
    /\ pc = "adding" => gene_rows = RowsFromEmpty(genes, Len(genes))
    /\ pc \in {"configured", "plotted"}
       => /\ gene_rows = RowsFromEmpty(genes, Len(genes))
          /\ config.rows = IF Len(genes) = 0
                           THEN 1
                           ELSE Len(RowsFromEmpty(genes, Len(genes)))
    /\ pc = "plotted"
       => /\ DOMAIN drawn = 1 .. Len(genes)
          /\ drawn = plot_genes(RowsFromEmpty(genes, Len(genes)))
          /\ \A g \in DOMAIN drawn :
               /\ drawn[g].total_rows = config.rows
               /\ g \in {gene_rows[drawn[g].row + 1].genes[a] :
                           a \in DOMAIN gene_rows[drawn[g].row + 1].genes}

\* the second plot of a track, over a region with one gene
C27_Witness ==
    /\ pc = "plotted"
    /\ gene_calls = 2
    /\ Len(genes) = 1
    /\ config.rows = 1
    /\ drawn[1].row = 0

---------------------------------------------------------------------------
(* Properties of the normalizer *)

\* the smallest and the greatest finite value of an array
FiniteMin(a) == Min({a.cells[i][1] : i \in isfinite(a)})
FiniteMax(a) == Max({a.cells[i][1] : i \in isfinite(a)})

\* the array a with every finite value multiplied by k
Scaled(a, k) ==
    [scale |-> a.scale * k,
     cells |-> [i \in DOMAIN a.cells |->
                  IF a.cells[i] = NaN THEN NaN ELSE Num(a.cells[i][1] * k)]]

\* vmin and vmax are the percentiles of the finite values of A, and the
\* finite values drawn reach from vmin to vmax
ClippedToPercentiles ==
    /\ norm.vmin = Num(percentile(A, qmin(norm.quantile)))
    /\ norm.vmax = Num(percentile(A, qmax(norm.quantile)))
    /\ isfinite(image) = isfinite(A)
    /\ FiniteMin(image) = norm.vmin[1]
    /\ FiniteMax(image) = norm.vmax[1]

C22_QuantileSymmetry ==
    norm.kind \in {"new", "ok"}
    => LET q == norm.quantile
           lower == IF q <= 100 - q THEN q ELSE 100 - q
           upper == IF q <= 100 - q THEN 100 - q ELSE q
       IN /\ qmin(q) = lower /\ qmax(q) = upper
          /\ qmin(100 - q) = lower /\ qmax(100 - q) = upper
          /\ qmin(q) <= qmax(q)
          /\ qmin(q) + qmax(q) = 100
          /\ (pc \in {"scaled", "clipped"} /\ isfinite(A) # {})
             => /\ norm.vmin = autoscale_None(A, 100 - q).vmin
                /\ norm.vmax = autoscale_None(A, 100 - q).vmax
                /\ norm.vmin = Num(percentile(A, lower))
                /\ norm.vmax = Num(percentile(A, upper))

\* a normalizer made with a quantile above 50 has set bounds that differ
C22_Witness ==
    /\ pc = "scaled"
    /\ norm.quantile = 75
    /\ isfinite(A) # {}
    /\ norm.vmin[1] < norm.vmax[1]

---------------------------------------------------------------------------
(* Properties of the matrices *)

\* C9 as stated, for a query that finds at least one row: the matrix of
\* the SQL store has a cell for every pair of bins of the queried range;
\* off the diagonal the cell holds the stored score where the pair has a
\* row and NaN where it has none.
C9_AbsentPairsAreNaN ==
    ( /\ backend = "db"
      /\ pc = "fetched"
      /\ result.kind = "ok"
      /\ selected_rows(table, bins.start, bins.stop) # {} )
    => LET lo == bins.start
           hi == bins.stop
           n == (hi - lo) + 1
       IN /\ result.data.nrows = n
          /\ result.data.ncols = n
          /\ \A x, y \in lo .. hi :
               x # y =>
                 Cell(result.data, x - lo, y - lo) =
                    IF <<x, y>> \in table THEN DiskValue(x, y) ELSE NaN

\* m is square, its diagonal is NaN in after and every other cell of after
\* is the cell of before
DiagonalRemoved(before, after) ==
    /\ after.nrows = before.nrows
    /\ after.ncols = before.ncols
    /\ \A i \in 0 .. (before.nrows - 1) :
         \A j \in 0 .. (before.ncols - 1) :
            Cell(after, i, j) = IF i = j THEN NaN ELSE Cell(before, i, j)

\* C10: removing the diagonal of an N x N matrix leaves NaN in every cell
\* (i, i) and leaves every other cell as it was, both where the track
\* does it (np.fill_diagonal) and where the SQL store does it.
C10_DiagonalRemoved ==
    /\ (pc = "masked" /\ result.data.nrows = result.data.ncols)
         => DiagonalRemoved(result.data, masked)
    /\ (backend = "db" /\ pc = "fetched" /\ result.kind = "ok")
         => LET pivot == unstack(selected_rows(table, bins.start, bins.stop))
            IN pivot.nrows = pivot.ncols
                 => DiagonalRemoved(pivot, result.data)

\* a 3 x 3 matrix of a file, with a score on its diagonal and a NaN off it,
\* after the track removed the diagonal
C10_Witness ==
    /\ pc = "masked"
    /\ backend = "my5c"
    /\ result.data.nrows = 3
    /\ result.data.ncols = 3
    /\ Cell(result.data, 1, 1) # NaN
    /\ Cell(result.data, 0, 2) = NaN
    /\ Cell(masked, 1, 1) = NaN

---------------------------------------------------------------------------
(* Properties of repeated reads *)

\* C29: all interactions(region) calls a caller makes on a folder store
\* with the same region return the same matrix and the same resolved
\* region (or fail alike), whether or not the caller has overwritten the
\* diagonal of an array returned earlier; a matrix returned is the slice of
\* the matrix on disk, so it is NaN only where the file is.
C29_ReadsUnaffectedByRendering ==
    \A i, j \in DOMAIN returned :
        /\ returned[i].kind = returned[j].kind
        /\ returned[i].kind = "ok"
           => /\ returned[i].data = returned[j].data
              /\ returned[i].region = returned[j].region
              /\ returned[i].data
                    = slice(disk, returned[i].start, returned[i].stop)
              /\ \A x, y \in 0 .. (returned[i].data.nrows - 1) :
                    Cell(returned[i].data, x, y) = NaN
                    => Cell(disk, returned[i].start + x,
                            returned[i].start + y) = NaN

\* a second read of two bins after the diagonal of the first was
\* overwritten
C29_Witness ==
    /\ Len(returned) = 2
    /\ returned[1].kind = "ok"
    /\ returned[1].stop - returned[1].start = 2
    /\ Cell(objects[1], returned[1].start, returned[1].start) = NaN
    /\ Cell(disk, returned[1].start, returned[1].start) # NaN
    /\ Cell(returned[2].data, 0, 0) # NaN
    /\ Cell(objects[2], returned[2].start, returned[2].start) # NaN

---------------------------------------------------------------------------
(* Properties of the location track *)

\* C28 as stated: whatever the distinct tick locations, the search for a
\* precision ends: _plot gets to set one label per tick, the labels
\* pairwise distinct.
C28_PrecisionSearchTerminates ==
    <>( /\ pc = "done"
        /\ Len(result.ticklabels) = Len(tick_locations)
        /\ all_distinct(result.ticklabels) )

---------------------------------------------------------------------------
(* Properties of the rotated heatmap *)

\* C21 as stated: no finite score of the matrix is 0 once the bias is
\* added; in the array returned a pixel of the background is NaN, and a
\* pixel that shows a cell with the finite score v is v again: it is NaN
\* only where the cell it shows is NaN.
C21_BiasRoundTrip ==
    /\ pc = "image"
       => \A k \in DOMAIN heatmap.flat :
            heatmap.flat[k] # NaN => rot.flat[k] \notin {NaN, Num(0)}
    /\ pc = "done"
       => \A p \in Indices(result.data.nrows, result.data.ncols) :
            LET s == sampled_cell(heatmap.nrows, flip, p[2], p[1])
                out == Cell(result.data, p[1], p[2])
            IN IF s = NoValue
               THEN out = NaN
               ELSE out = Cell(heatmap, s.r, s.c)

====
